---- MODULE Spec2Model ----
(***************************************************************************)
(* Model of the news-to-post pipeline of Kiro-Linkedin-Poster.             *)
(*                                                                         *)
(*   AIGoodNewsAgent      (ai-agent.js, src/unnamed/part_005)              *)
(*   LinkedInAINewsAgent  (linkedin-ai-news-agent.js, src/unnamed/part_004)*)
(*                                                                         *)
(* Strings are modelled as sequences of tokens (words and the sentence     *)
(* terminator "."); `a + ' ' + b` is sequence concatenation, and           *)
(* String.prototype.includes(k) for the single-word keywords used by the   *)
(* code is "some token, lower-cased, contains k".                          *)
(* JavaScript exceptions are modelled by return records                    *)
(* [ok |-> FALSE, err |-> message]; `undefined` is Undefined.              *)
(***************************************************************************)
EXTENDS Integers, Sequences, FiniteSets, TLC

\* ---------------------------------------------------------------- bounds
NumKeywords == 2      \* how many entries of the keyword list a batch searches
MaxArticles == 4      \* cap on the raw hits one search batch collects
MaxTitleTokens == 3   \* scaled image of the 100-character title cut
MaxHits == 3          \* cap on the entries of the answers one searchAINews call reads
MaxTopics == 4        \* how many hashtag keywords an article text may hold
MaxRandom == 1        \* the random numbers drawn during a run are 0..MaxRandom

Undefined == -1

\* ------------------------------------------------------- string helpers
RECURSIVE SeqsUpTo(_, _)
SeqsUpTo(S, n) ==
    IF n = 0 THEN {<<>>}
    ELSE LET shorter == SeqsUpTo(S, n - 1)
         IN  shorter \cup {Append(s, x) : s \in {t \in shorter : Len(t) = n - 1}, x \in S}

Range(s) == {s[i] : i \in 1..Len(s)}

Min(a, b) == IF a < b THEN a ELSE b

\* String.prototype.toLowerCase on one token
toLowerCase(tok) ==
    CASE tok = "Breakthrough" -> "breakthrough"
      [] tok = "Successful"   -> "successful"
      [] tok = "AI"           -> "ai"
      [] OTHER                -> tok

\* substring containment between a (lower-cased) token and a keyword
TokenContains(tok, kw) ==
    \/ tok = kw
    \/ tok = "successful" /\ kw = "success"
    \/ tok = "improvements" /\ kw = "improvement"

\* text.toLowerCase().includes(kw) for a single-word kw
includes(text, kw) == \E i \in 1..Len(text) : TokenContains(toLowerCase(text[i]), kw)

\* ------------------------------------------------ what the providers serve
\* NewsAPI `data.articles` entries
NewsApiHits ==
    { [title |-> <<"Chip", "news">>, description |-> <<"an", "improvement">>,
       url |-> "u1", source |-> "Wired"],
      [title |-> <<"Startup", "funding">>, description |-> <<"Successful", "round">>,
       url |-> "u2", source |-> "VentureBeat"],
      [title |-> <<"AI", "Breakthrough">>, description |-> <<"steady", "progress">>,
       url |-> "u3", source |-> "TechCrunch"] }

\* DuckDuckGo `data.RelatedTopics` entries; "" is an absent FirstURL
DuckDuckGoTopics ==
    { [Text |-> <<"Chip", "improvements", ".", "more", "soon">>, FirstURL |-> "u1"],
      [Text |-> <<"Successful", "startup", "funding", "round">>, FirstURL |-> "u2"],
      [Text |-> <<"AI", "Breakthrough", ".", "steady", "progress">>, FirstURL |-> "u3"],
      [Text |-> <<"Category", "page">>, FirstURL |-> ""] }

Urls == {"u1", "u2", "u3"}

\* extractTitle: first sentence, cut to the title length
RECURSIVE FirstSentence(_)
FirstSentence(text) ==
    IF text = <<>> \/ Head(text) = "." THEN <<>>
    ELSE <<Head(text)>> \o FirstSentence(Tail(text))

extractTitle(text) ==
    LET s == FirstSentence(text)
    IN  SubSeq(s, 1, Min(Len(s), MaxTitleTokens))

\* extractDomain: hostname of the URL
extractDomain(url) ==
    CASE url = "u1" -> "wired.com"
      [] url = "u2" -> "venturebeat.com"
      [] url = "u3" -> "techcrunch.com"
      [] OTHER      -> "unknown"

\* ======================================================================
\* AIGoodNewsAgent (src/unnamed/part_005)
\* ======================================================================

keywords ==
    << "artificial intelligence breakthrough", "AI advancement",
       "machine learning progress", "AI startup funding",
       "AI research breakthrough", "generative AI innovation" >>

positiveKeywords ==
    << "breakthrough", "innovation", "advancement", "progress",
       "success", "achievement", "improvement" >>

Ok(v)     == [ok |-> TRUE, val |-> v, err |-> ""]
Throw(m)  == [ok |-> FALSE, val |-> Undefined, err |-> m]

\* JavaScript array access with a 0-based index that may be out of range
ValidIndex(arr, i) == i \in 0..(Len(arr) - 1)

\* searchWithNewsAPI: data.articles.map(...)
fromNewsAPI(hits) ==
    [i \in 1..Len(hits) |->
        [title |-> hits[i].title, description |-> hits[i].description,
         url |-> hits[i].url, source |-> hits[i].source]]

\* searchWithDuckDuckGo: the loop over data.RelatedTopics
RECURSIVE fromDuckDuckGo(_)
fromDuckDuckGo(topics) ==
    IF topics = <<>> THEN <<>>
    ELSE LET topic == Head(topics)
         IN  (IF topic.FirstURL # "" /\ topic.Text # <<>>
              THEN << [title |-> extractTitle(topic.Text), description |-> topic.Text,
                       url |-> topic.FirstURL, source |-> extractDomain(topic.FirstURL)] >>
              ELSE <<>>)
             \o fromDuckDuckGo(Tail(topics))

\* variant of filterSeen that forgets the seen check
filterSeen_keepsAll(allArticles, seen) == allArticles

\* searchAINews, lines 56-59: drop the articles whose url is already seen
RECURSIVE filterSeen(_, _)
filterSeen(allArticles, seen) ==
    IF allArticles = <<>> THEN <<>>
    ELSE (IF Head(allArticles).url \in Range(seen) THEN <<>> ELSE <<Head(allArticles)>>)
         \o filterSeen(Tail(allArticles), seen)

\* fallbackAnalysis, lines 214-223: one point per positive keyword present
scoreOf(article) ==
    LET text == article.title \o article.description
    IN  Cardinality({k \in 1..Len(positiveKeywords) : includes(text, positiveKeywords[k])})

\* variant of insertByScore that puts a new element before its equals
RECURSIVE insertByScore_unstable(_, _)
insertByScore_unstable(sorted, x) ==
    IF sorted = <<>> THEN <<x>>
    ELSE IF Head(sorted).score - x.score <= 0
         THEN <<x>> \o sorted
         ELSE <<Head(sorted)>> \o insertByScore_unstable(Tail(sorted), x)

\* Array.prototype.sort((a, b) => b.score - a.score): stable, descending.
\* Insertion into an already sorted list, behind every element that does not
\* compare after the new one.
RECURSIVE insertByScore(_, _)
insertByScore(sorted, x) ==
    IF sorted = <<>> THEN <<x>>
    ELSE IF Head(sorted).score - x.score < 0
         THEN <<x>> \o sorted
         ELSE <<Head(sorted)>> \o insertByScore(Tail(sorted), x)

RECURSIVE sortByScore(_)
sortByScore(scored) ==
    IF scored = <<>> THEN <<>>
    ELSE insertByScore(sortByScore(SubSeq(scored, 1, Len(scored) - 1)), scored[Len(scored)])

overallTrendFallback == "The AI field continues to show positive developments"

fallbackAnalysis(articles) ==
    LET scored == [i \in 1..Len(articles) |->
                      [title |-> articles[i].title, description |-> articles[i].description,
                       score |-> scoreOf(articles[i]), originalIndex |-> i - 1]]
        sorted == sortByScore(scored)
        top    == SubSeq(sorted, 1, Min(3, Len(sorted)))
    IN  [hasTopArticles |-> TRUE,
         topArticles |-> [r \in 1..Len(top) |->
                            [rank |-> r, title |-> top[r].title,
                             summary |-> top[r].description,
                             originalIndex |-> top[r].originalIndex]],
         overallTrend |-> overallTrendFallback]

\* ------------------------------------------------- the generative backend
\* What the backend may answer to one POST.  status: result of
\* makeHttpRequest ("ok" = 2xx); bodyIsJson: JSON.parse(response) succeeds;
\* candidates: data.candidates[0].content is present; text: the generated
\* text, which is valid JSON holding `value` (isJson) or free text that may
\* contain a link (hasHttp).
NoValue == [hasTopArticles |-> FALSE, topArticles |-> <<>>, overallTrend |-> ""]

GeminiText(isJson, value, hasHttp) ==
    [isJson |-> isJson, value |-> value, hasHttp |-> hasHttp]

GeminiResponse(status, bodyIsJson, candidates, text) ==
    [status |-> status, bodyIsJson |-> bodyIsJson, candidates |-> candidates, text |-> text]

NoText == GeminiText(FALSE, NoValue, FALSE)

\* not a response: no request was made
NoResponse == GeminiResponse("none", FALSE, FALSE, NoText)

FailedResponses ==
    { GeminiResponse("http_error", FALSE, FALSE, NoText),
      GeminiResponse("transport_error", FALSE, FALSE, NoText),
      GeminiResponse("ok", FALSE, FALSE, NoText),
      GeminiResponse("ok", TRUE, FALSE, NoText) }

\* the analyses a backend may put into its text for n articles: index lists
\* with valid, out-of-range and missing originalIndex values
BackendIndexLists(n) ==
    { <<>>, <<0>>, <<0, n - 1>>, <<0, n>>, <<n>>, <<Undefined>> }

BackendAnalyses(n) ==
    { NoValue } \cup
    { [hasTopArticles |-> TRUE,
       topArticles |-> [r \in 1..Len(idx) |->
                          [rank |-> r, title |-> <<"generated">>,
                           summary |-> <<"generated">>, originalIndex |-> idx[r]]],
       overallTrend |-> "generated"] : idx \in BackendIndexLists(n) }

AnalysisResponses(n) ==
    FailedResponses
    \cup { GeminiResponse("ok", TRUE, TRUE, NoText) }
    \cup { GeminiResponse("ok", TRUE, TRUE, GeminiText(TRUE, v, FALSE)) : v \in BackendAnalyses(n) }

PostResponses ==
    FailedResponses
    \cup { GeminiResponse("ok", TRUE, TRUE, GeminiText(FALSE, NoValue, h)) : h \in BOOLEAN }

\* callGeminiAPI, lines 194-207
callGeminiAPI(response) ==
    IF response.status # "ok" THEN Throw(response.status)
    ELSE IF ~response.bodyIsJson THEN Throw("SyntaxError")
    ELSE IF response.candidates THEN Ok(response.text)
    ELSE Throw("Invalid Gemini API response")

\* JSON.parse of the generated text
JSONparse(text) == IF text.isJson THEN Ok(text.value) ELSE Throw("SyntaxError")

\* analyzeWithGemini; requests = number of backend requests it issued
Returned(r, requests) ==
    [ok |-> r.ok, val |-> r.val, err |-> r.err, requests |-> requests]

\* variant of analyzeWithGemini with JSON.parse outside the try
analyzeWithGemini_parseUncaught(geminiApiKey, articles, response) ==
    IF ~geminiApiKey THEN Returned(Ok(fallbackAnalysis(articles)), 0)
    ELSE LET analysis == callGeminiAPI(response)
         IN  IF analysis.ok
             THEN Returned(JSONparse(analysis.val), 1)
             ELSE Returned(Ok(fallbackAnalysis(articles)), 1)

analyzeWithGemini(geminiApiKey, articles, response) ==
    IF ~geminiApiKey THEN Returned(Ok(fallbackAnalysis(articles)), 0)
    ELSE LET analysis == callGeminiAPI(response)
         IN  IF analysis.ok /\ JSONparse(analysis.val).ok
             THEN Returned(JSONparse(analysis.val), 1)
             ELSE Returned(Ok(fallbackAnalysis(articles)), 1)

\* generateFallbackPost, lines 287-306
generateFallbackPost(analysis, articles) ==
    IF ~analysis.hasTopArticles \/ analysis.topArticles = <<>> THEN Throw("TypeError")
    ELSE LET topArticle == analysis.topArticles[1]
         IN  IF ~ValidIndex(articles, topArticle.originalIndex) THEN Throw("TypeError")
             ELSE LET originalArticle == articles[topArticle.originalIndex + 1]
                  IN  Ok([via |-> "fallback", title |-> topArticle.title,
                          sourceLine |-> originalArticle.url])

\* formatLinkedInPost, lines 308-315: the source line is appended unless the
\* generated text already holds a link or there is no url
formatLinkedInPost(post, sourceUrl) ==
    [via |-> "gemini", title |-> <<>>,
     sourceLine |-> IF ~post.hasHttp /\ sourceUrl # "" THEN sourceUrl ELSE ""]

\* generateLinkedInPost, lines 247-285
generateLinkedInPost(geminiApiKey, analysis, articles, response) ==
    IF ~geminiApiKey THEN Returned(generateFallbackPost(analysis, articles), 0)
    ELSE IF ~analysis.hasTopArticles \/ analysis.topArticles = <<>>
         THEN Returned(Throw("TypeError"), 0)
    ELSE LET topArticle == analysis.topArticles[1]
         IN  IF ~ValidIndex(articles, topArticle.originalIndex)
             THEN Returned(Throw("TypeError"), 0)
             ELSE LET originalArticle == articles[topArticle.originalIndex + 1]
                      post == callGeminiAPI(response)
                  IN  IF post.ok
                      THEN Returned(Ok(formatLinkedInPost(post.val, originalArticle.url)), 1)
                      ELSE Returned(generateFallbackPost(analysis, articles), 1)

\* ------------------------------------------------------ seen-articles.json
\* state: "missing" (no file), "valid" (a JSON array of urls), "corrupt"
\* (a file JSON.parse rejects, as left by a write that failed part-way)
StoreFile(state, urls) == [state |-> state, urls |-> urls]

\* the urls a reader finds in the file
StoreUrls(file) == IF file.state = "valid" THEN Range(file.urls) ELSE {}

\* loadSeenArticles, lines 11-20
loadSeenArticles(file) == IF file.state = "valid" THEN file.urls ELSE <<>>

\* fs.writeFileSync: "ok"; "fail_untouched" (open fails, file as before);
\* "fail_truncated" (the file was opened with truncation and the write failed)
WriteOutcomes == {"ok", "fail_untouched", "fail_truncated"}

\* saveSeenArticles, lines 22-24
saveSeenArticles(file, seen, outcome) ==
    CASE outcome = "ok"             -> StoreFile("valid", seen)
      [] outcome = "fail_truncated" -> StoreFile("corrupt", <<>>)
      [] OTHER                      -> file

\* variant of markSeen that pushes every url without looking it up
markSeen_noCheck(seen, articles) ==
    seen \o [i \in 1..Len(articles) |-> articles[i].url]

\* run, lines 338-342: push every url not yet in the list
RECURSIVE markSeen(_, _)
markSeen(seen, articles) ==
    IF articles = <<>> THEN seen
    ELSE markSeen(IF Head(articles).url \in Range(seen) THEN seen
                  ELSE Append(seen, Head(articles).url),
                  Tail(articles))

\* run, lines 349-353: analysis.topArticles.map(...)
resultArticles(analysis, articles) ==
    IF \E r \in 1..Len(analysis.topArticles) :
            ~ValidIndex(articles, analysis.topArticles[r].originalIndex)
    THEN Throw("TypeError")
    ELSE Ok([r \in 1..Len(analysis.topArticles) |->
               [rank |-> analysis.topArticles[r].rank,
                originalIndex |-> analysis.topArticles[r].originalIndex,
                url |-> articles[analysis.topArticles[r].originalIndex + 1].url,
                source |-> articles[analysis.topArticles[r].originalIndex + 1].source]])

NoPost == [via |-> "none", title |-> <<>>, sourceLine |-> ""]

\* what the promise returned by run() settled with
RunResult(settled, success, error, arts, post) ==
    [settled |-> settled, success |-> success, error |-> error,
     articles |-> arts, linkedinPost |-> post]

NoResult == RunResult("pending", FALSE, "", <<>>, NoPost)

\* run, lines 325-328: the early return for an empty search
noArticlesResult ==
    RunResult("resolved", FALSE, "No new AI articles found in the last 24 hours", <<>>, NoPost)

\* variant of catchError that lets the exception leave run()
catchError_rethrows(message) == RunResult("rejected", FALSE, message, <<>>, NoPost)

\* run, lines 359-365: the catch block
catchError(message) == RunResult("resolved", FALSE, message, <<>>, NoPost)

\* run, lines 347-357: the success object
successResult(arts, post) == RunResult("resolved", TRUE, "", arts, post)

\* run, lines 337-357 inside the try: step 4 and the return
persistAndReturn(file, seen, analysis, articles, post, outcome) ==
    LET marked == markSeen(seen, articles)
        out    == resultArticles(analysis, articles)
    IN  [seenArticles |-> marked,
         store  |-> saveSeenArticles(file, marked, outcome),
         result |-> IF outcome # "ok" THEN catchError("write failed")
                    ELSE IF ~out.ok THEN catchError(out.err)
                    ELSE successResult(out.val, post)]

\* ======================================================================
\* LinkedInAINewsAgent (src/unnamed/part_004)
\* ======================================================================

\* CONFIG; relevance scores are in hundredths
aiKeywords ==
    << "artificial intelligence", "machine learning", "OpenAI", "ChatGPT",
       "neural networks", "deep learning", "AI startups", "generative AI",
       "AI ethics", "AI regulation" >>
maxResults == 10
minRelevanceScore == 40
styles == << "news_share", "question", "insight", "list" >>
preferred == { "techcrunch.com", "wired.com", "technologyreview.com",
               "venturebeat.com", "theverge.com", "arstechnica.com" }
excluded == { "spam-site.com", "clickbait-news.com" }

\* ------------------------------------------------- texts and relevance
\* A text is modelled by what the code reads of it: its length, the
\* lower-case terms of the code's word lists that occur in it (`terms`, closed
\* under substring: a text holding "openai" also holds "ai"), the terms that
\* occur in its first sentence (`titleTerms`), the number of regular-expression
\* matches of the words of the query (`queryMatches`) and its sentences.
Text(length, terms, titleTerms, queryMatches, sentences) ==
    [length |-> length, terms |-> terms, titleTerms |-> titleTerms,
     queryMatches |-> queryMatches, sentences |-> sentences]

\* one sentence of a summary (split(/[.!?]+/)): its trimmed length, whether it
\* holds one of the keyIndicators of isKeyPoint, and calculateImportance of it
Sentence(length, keyIndicator, importance) ==
    [length |-> length, keyIndicator |-> keyIndicator, importance |-> importance]

\* calculateRelevanceScore, lines 958-994
highValueTerms ==
    { "artificial intelligence", "machine learning", "neural network",
      "deep learning", "generative ai", "large language model" }
mediumValueTerms == { "ai", "ml", "algorithm", "automation", "chatgpt", "openai" }
newsTerms == { "announced", "launched", "breakthrough", "funding", "research" }

\* variant of calculateRelevanceScore without the final Math.min
calculateRelevanceScore_unclamped(text) ==
    15 * text.queryMatches
    + 30 * Cardinality(text.terms \cap highValueTerms)
    + 20 * Cardinality(text.terms \cap mediumValueTerms)
    + 10 * Cardinality(text.terms \cap newsTerms)

\* calculateRelevanceScore, lines 942-1003, in hundredths
calculateRelevanceScore(text) ==
    Min(15 * text.queryMatches
        + 30 * Cardinality(text.terms \cap highValueTerms)
        + 20 * Cardinality(text.terms \cap mediumValueTerms)
        + 10 * Cardinality(text.terms \cap newsTerms),
        100)

\* variant of matchCount that counts the matches of the short words as well
RECURSIVE matchCount_allWords(_)
matchCount_allWords(queryWords) ==
    IF queryWords = <<>> THEN 0
    ELSE Head(queryWords).matches + matchCount_allWords(Tail(queryWords))

\* calculateRelevanceScore, lines 949-955: the matches of the query words of
\* more than 2 characters; a word is its length and the number of matches of
\* new RegExp(word, "g") in the text
RECURSIVE matchCount(_)
matchCount(queryWords) ==
    IF queryWords = <<>> THEN 0
    ELSE (IF Head(queryWords).length > 2 THEN Head(queryWords).matches ELSE 0)
         + matchCount(Tail(queryWords))

\* article.relevanceScore > 0.3 (lines 716 and 756) on the double the loops
\* of calculateRelevanceScore add up: 0.2 + 0.1 and 0.1 + 0.1 + 0.1 are
\* 0.30000000000000004, while 2 * 0.15, 0.15 + 0.15 and 0.3 are 0.3
aboveParseThreshold(text) ==
    \/ calculateRelevanceScore(text) > 30
    \/ /\ calculateRelevanceScore(text) = 30
       /\ text.queryMatches = 0
       /\ text.terms \cap highValueTerms = {}

\* isNewsWorthy, lines 780-843
newsIndicators ==
    { "announced", "launched", "released", "unveiled", "introduced", "breakthrough",
      "development", "research", "study", "report", "funding", "investment",
      "acquisition", "partnership", "regulation", "policy", "law", "ruling",
      "decision", "update", "version", "feature", "improvement", "innovation",
      "company", "startup", "corporation", "organization", "technology",
      "platform", "system", "tool", "application" }
aiTerms ==
    { "artificial intelligence", "machine learning", "neural network", "deep learning",
      "ai model", "algorithm", "automation", "chatgpt", "openai", "generative",
      "llm", "transformer" }

isNewsWorthy(text) ==
    /\ text.terms \cap newsIndicators # {}
    /\ text.terms \cap aiTerms # {}

\* ------------------------------------------- what DuckDuckGo may answer
\* `domains` holds the configured source domains that occur in the hostname
\* of the url; Text is the text left after the HTML tags are stripped.
RelatedTopic(FirstURL, urlLength, hostname, domains, text) ==
    [FirstURL |-> FirstURL, urlLength |-> urlLength, hostname |-> hostname,
     domains |-> domains, Text |-> text]

RelatedTopics ==
    { RelatedTopic("u1", 28, "wired.com", {"wired.com"},
          Text(150, {"machine learning", "research"}, {"machine learning"}, 1,
               << Sentence(60, TRUE, 3), Sentence(85, TRUE, 5) >>)),
      RelatedTopic("u2", 31, "example.com", {},
          Text(130, {"automation", "startup"}, {"startup"}, 1,
               << Sentence(125, FALSE, 0) >>)),
      RelatedTopic("u3", 40, "news.spam-site.com", {"spam-site.com"},
          Text(150, {"generative ai", "generative", "ai", "funding"}, {"ai"}, 0,
               << Sentence(145, TRUE, 3) >>)),
      RelatedTopic("u4", 35, "theverge.com", {"theverge.com"},
          Text(260, {"artificial intelligence", "machine learning", "openai", "ai",
                     "breakthrough", "funding"}, {"openai", "ai"}, 2,
               << Sentence(25, TRUE, 1), Sentence(220, TRUE, 6) >>)),
      RelatedTopic("u5", 30, "example.com", {},
          Text(80, {"chatgpt", "launched"}, {"chatgpt"}, 3,
               << Sentence(75, TRUE, 2) >>)),
      RelatedTopic("u5", 30, "example.com", {},
          Text(150, {"machine learning"}, {}, 0,
               << Sentence(145, FALSE, 1) >>)),
      RelatedTopic("", 0, "", {},
          Text(150, {"machine learning", "research"}, {}, 1, <<>>)) }

\* the abstract of an answer; headingIsString is FALSE when data.Heading is
\* present and not a string; AbstractURL "" is an answer without abstract
Abstract(AbstractURL, urlLength, hostname, domains, headingIsString, text) ==
    [AbstractURL |-> AbstractURL, urlLength |-> urlLength, hostname |-> hostname,
     domains |-> domains, headingIsString |-> headingIsString, AbstractText |-> text]

NoAbstract == Abstract("", 0, "", {}, TRUE, Text(0, {}, {}, 0, <<>>))

Abstracts ==
    { NoAbstract,
      Abstract("u2", 31, "example.com", {}, FALSE,
          Text(120, {"openai", "ai", "announced"}, {"openai", "ai"}, 2,
               << Sentence(115, TRUE, 3) >>)),
      Abstract("u1", 28, "wired.com", {"wired.com"}, TRUE,
          Text(60, {"deep learning", "study"}, {"deep learning"}, 1,
               << Sentence(55, TRUE, 1) >>)),
      Abstract("u4", 35, "theverge.com", {"theverge.com"}, TRUE,
          Text(40, {"chatgpt", "update"}, {"chatgpt"}, 1,
               << Sentence(38, FALSE, 0) >>)) }

\* jsonData of duckDuckGoSearch; the entries of data.Results and of nested
\* Topics go through the same code as those of data.RelatedTopics and are
\* modelled as further entries of RelatedTopics; n caps the size of the answer
ProviderAnswers(n) ==
    { [abstract |-> NoAbstract, RelatedTopics |-> t] : t \in SeqsUpTo(RelatedTopics, n) }
    \cup (IF n = 0 THEN {}
          ELSE { [abstract |-> a, RelatedTopics |-> t] :
                    a \in Abstracts \ {NoAbstract},
                    t \in SeqsUpTo(RelatedTopics, n - 1) })

\* the article object built at lines 658-667, 695-707 and 737-749
Article(url, urlLength, source, domains, relevanceScore, titleIsString, text) ==
    [url |-> url, urlLength |-> urlLength, source |-> source, domains |-> domains,
     relevanceScore |-> relevanceScore, summaryLength |-> text.length,
     titleIsString |-> titleIsString, terms |-> text.terms,
     titleTerms |-> text.titleTerms, sentences |-> text.sentences]

\* parseSearchResults, lines 653-676: the direct abstract result
abstractArticle(data) ==
    IF /\ data.AbstractURL # ""
       /\ data.AbstractText.length > 50
       /\ isNewsWorthy(data.AbstractText)
    THEN << Article(data.AbstractURL, data.urlLength, data.hostname, data.domains, 90,
                    data.headingIsString, data.AbstractText) >>
    ELSE <<>>

\* parseSearchResults, lines 684-725 and 732-765: related topics and results
RECURSIVE topicArticles(_)
topicArticles(topics) ==
    IF topics = <<>> THEN <<>>
    ELSE LET item == Head(topics)
             relevanceScore == calculateRelevanceScore(item.Text)
         IN  (IF /\ item.FirstURL # ""
                 /\ item.Text.length > 100
                 /\ isNewsWorthy(item.Text)
                 /\ aboveParseThreshold(item.Text)
              THEN << Article(item.FirstURL, item.urlLength, item.hostname, item.domains,
                              relevanceScore, TRUE, item.Text) >>
              ELSE <<>>)
             \o topicArticles(Tail(topics))

parseSearchResults(data) ==
    abstractArticle(data.abstract) \o topicArticles(data.RelatedTopics)

\* source.toLowerCase().includes(entry.toLowerCase()) for some entry of list;
\* `domains` holds the configured domains that occur in the source string
matchesSource(article, list) == article.domains \cap list # {}

\* Array.prototype.findIndex(a => a.url === url): the first position, 0-based
findIndex(arts, url) ==
    CHOOSE j \in 0..(Len(arts) - 1) :
        /\ arts[j + 1].url = url
        /\ \A k \in 0..(j - 1) : arts[k + 1].url # url

\* filterAndRankArticles, lines 853-856: first occurrence of each url
RECURSIVE uniqueFrom(_, _)
uniqueFrom(arts, index) ==
    IF index >= Len(arts) THEN <<>>
    ELSE (IF index = findIndex(arts, arts[index + 1].url) THEN <<arts[index + 1]>> ELSE <<>>)
         \o uniqueFrom(arts, index + 1)

\* variant of uniqueArticles without the duplicate filter
uniqueArticles_keepsAll(arts) == arts

uniqueArticles(arts) == uniqueFrom(arts, 0)

\* filterAndRankArticles, lines 859-889
isQuality(article) ==
    /\ ~matchesSource(article, excluded)
    /\ ~(article.relevanceScore < minRelevanceScore)
    /\ ~(article.summaryLength < 100)

RECURSIVE qualityArticles(_)
qualityArticles(arts) ==
    IF arts = <<>> THEN <<>>
    ELSE (IF isQuality(Head(arts)) THEN <<Head(arts)>> ELSE <<>>) \o qualityArticles(Tail(arts))

\* variant of compareArticles that ranks by relevanceScore alone
compareArticles_scoreOnly(a, b) == b.relevanceScore - a.relevanceScore

\* the comparator of lines 892-906: negative when a sorts before b
compareArticles(a, b) ==
    LET aPreferred == matchesSource(a, preferred)
        bPreferred == matchesSource(b, preferred)
    IN  IF aPreferred /\ ~bPreferred THEN -1
        ELSE IF ~aPreferred /\ bPreferred THEN 1
        ELSE b.relevanceScore - a.relevanceScore

RECURSIVE insertRanked(_, _)
insertRanked(sorted, x) ==
    IF sorted = <<>> THEN <<x>>
    ELSE IF compareArticles(Head(sorted), x) > 0
         THEN <<x>> \o sorted
         ELSE <<Head(sorted)>> \o insertRanked(Tail(sorted), x)

RECURSIVE sortRanked(_)
sortRanked(arts) ==
    IF arts = <<>> THEN <<>>
    ELSE insertRanked(sortRanked(SubSeq(arts, 1, Len(arts) - 1)), arts[Len(arts)])

filterAndRankArticles(arts) ==
    LET ranked == sortRanked(qualityArticles(uniqueArticles(arts)))
    IN  SubSeq(ranked, 1, Min(maxResults, Len(ranked)))

\* ------------------------------------------------------ post generation
\* Strings built by the post templates are modelled by their length
\* (String.prototype.length, UTF-16 code units).
maxCharacters == 3000
maxHashtags == 5

\* Math.floor(Math.random() * list.length): any index of the list
Randoms == 0..6
pick(list, random) == list[(random % Len(list)) + 1]

\* isKeyPoint, lines 1184-1220
isKeyPoint(sentence) ==
    /\ sentence.keyIndicator
    /\ sentence.length > 30
    /\ sentence.length < 200

\* keyPoints.sort((a, b) => b.importance - a.importance)
RECURSIVE insertByImportance(_, _)
insertByImportance(sorted, x) ==
    IF sorted = <<>> THEN <<x>>
    ELSE IF Head(sorted).importance - x.importance < 0
         THEN <<x>> \o sorted
         ELSE <<Head(sorted)>> \o insertByImportance(Tail(sorted), x)

RECURSIVE sortByImportance(_)
sortByImportance(points) ==
    IF points = <<>> THEN <<>>
    ELSE insertByImportance(sortByImportance(SubSeq(points, 1, Len(points) - 1)),
                            points[Len(points)])

\* extractKeyPoints, lines 1157-1179
extractKeyPoints(article) ==
    LET sentences == SelectSeq(article.sentences, LAMBDA s : s.length > 20)
        firstFive == SubSeq(sentences, 1, Min(5, Len(sentences)))
        sorted    == sortByImportance(SelectSeq(firstFive, isKeyPoint))
    IN  SubSeq(sorted, 1, Min(3, Len(sorted)))

\* text.includes(keyword) for text = (article.title + " " + article.summary)
inTitleOrSummary(article, keyword) == keyword \in article.terms \cup article.titleTerms

\* hashtagMap, lines 1279-1295, in the order of Object.entries
hashtagMap ==
    << [keyword |-> "machine learning", hashtag |-> "#MachineLearning", length |-> 16],
       [keyword |-> "deep learning",    hashtag |-> "#DeepLearning",    length |-> 13],
       [keyword |-> "neural network",   hashtag |-> "#NeuralNetworks",  length |-> 15],
       [keyword |-> "chatgpt",          hashtag |-> "#ChatGPT",         length |-> 8],
       [keyword |-> "openai",           hashtag |-> "#OpenAI",          length |-> 7],
       [keyword |-> "generative",       hashtag |-> "#GenerativeAI",    length |-> 13],
       [keyword |-> "startup",          hashtag |-> "#AIStartup",       length |-> 10],
       [keyword |-> "funding",          hashtag |-> "#TechFunding",     length |-> 12],
       [keyword |-> "research",         hashtag |-> "#AIResearch",      length |-> 11],
       [keyword |-> "ethics",           hashtag |-> "#AIEthics",        length |-> 9],
       [keyword |-> "regulation",       hashtag |-> "#AIRegulation",    length |-> 13],
       [keyword |-> "automation",       hashtag |-> "#Automation",      length |-> 11],
       [keyword |-> "innovation",       hashtag |-> "#Innovation",      length |-> 11],
       [keyword |-> "technology",       hashtag |-> "#Technology",      length |-> 11],
       [keyword |-> "future",           hashtag |-> "#FutureOfWork",    length |-> 13] >>

coreHashtags ==
    << [hashtag |-> "#ArtificialIntelligence", length |-> 23],
       [hashtag |-> "#AI", length |-> 3] >>

\* Set.prototype.add on a set kept in insertion order
add(hashtags, tag) ==
    IF \E i \in 1..Len(hashtags) : hashtags[i].hashtag = tag.hashtag THEN hashtags
    ELSE Append(hashtags, tag)

\* the loop of lines 1298-1302 from entry i on
RECURSIVE addTopicHashtags(_, _, _)
addTopicHashtags(hashtags, article, i) ==
    IF i > Len(hashtagMap) THEN hashtags
    ELSE addTopicHashtags(
             IF inTitleOrSummary(article, hashtagMap[i].keyword)
             THEN add(hashtags, [hashtag |-> hashtagMap[i].hashtag,
                                 length |-> hashtagMap[i].length])
             ELSE hashtags,
             article, i + 1)

\* variant of generateHashtags that adds the core hashtags last
generateHashtags_coreLast(article) ==
    LET topics == addTopicHashtags(<<>>, article, 1)
        all    == add(add(topics, coreHashtags[1]), coreHashtags[2])
    IN  SubSeq(all, 1, Min(maxHashtags, Len(all)))

\* generateHashtags, lines 1270-1311
generateHashtags(article) ==
    LET core == add(add(<<>>, coreHashtags[1]), coreHashtags[2])
        all  == addTopicHashtags(core, article, 1)
    IN  SubSeq(all, 1, Min(maxHashtags, Len(all)))

\* hashtags.join(" ").length
RECURSIVE joinLength(_, _)
joinLength(items, separator) ==
    IF items = <<>> THEN 0
    ELSE IF Len(items) = 1 THEN items[1].length
    ELSE items[1].length + separator + joinLength(Tail(items), separator)

\* getEngagingHook, lines 1316-1328: the lengths of the hooks
hooks == << 31, 47, 48, 48, 46, 40, 54 >>

\* createSummary, lines 1333-1347: the length of the summary
createSummary(article, keyPoints, maxLength) ==
    LET summary == IF keyPoints # <<>> THEN keyPoints[1].length ELSE article.summaryLength
    IN  IF summary > maxLength THEN (maxLength - 3) + 3 ELSE summary

\* extractMainTopic, lines 1352-1367: the length of the topic; throws when
\* article.title has no toLowerCase
extractMainTopic(article) ==
    IF ~article.titleIsString THEN Throw("TypeError")
    ELSE IF article.titleTerms \cap {"chatgpt", "openai"} # {} THEN Ok(14)
    ELSE IF "machine learning" \in article.titleTerms THEN Ok(16)
    ELSE IF "deep learning" \in article.titleTerms THEN Ok(13)
    ELSE IF "neural network" \in article.titleTerms THEN Ok(15)
    ELSE IF "generative" \in article.titleTerms THEN Ok(13)
    ELSE IF "startup" \in article.titleTerms THEN Ok(11)
    ELSE IF article.titleTerms \cap {"regulation", "policy"} # {} THEN Ok(13)
    ELSE IF "ethics" \in article.titleTerms THEN Ok(9)
    ELSE Ok(23)

\* generateInsights, lines 1372-1386
generateInsights(keyPoints, random) ==
    IF keyPoints = <<>> THEN 68 ELSE pick(<< 71, 62, 64, 60, 55 >>, random)

\* createNewsSharePost, lines 1103-1108
createNewsSharePost(article, keyPoints, random) ==
    Ok(pick(hooks, random) + 2 + createSummary(article, keyPoints, 200) + 45)

\* createQuestionPost, lines 1113-1129
createQuestionPost(article, keyPoints, random) ==
    LET topic == extractMainTopic(article)
    IN  IF ~topic.ok THEN topic
        ELSE LET questions == << 43 + topic.val, 50, 63, 46, 51 >>
             IN  Ok(3 + pick(questions, random) + 2
                    + createSummary(article, keyPoints, 150) + 53)

\* createInsightPost, lines 1134-1139
createInsightPost(article, keyPoints, random) ==
    Ok(38 + createSummary(article, keyPoints, 150) + 2
       + generateInsights(keyPoints, random) + 66)

\* createListPost, lines 1144-1152: each item is `${index + 1}. ${point.text}`
createListPost(article, keyPoints) ==
    LET listItems == [i \in 1..Len(keyPoints) |-> [length |-> 3 + keyPoints[i].length]]
    IN  Ok(43 + createSummary(article, keyPoints, 100) + 15
           + joinLength(listItems, 1) + 38)

\* String.prototype.substring(start, end) on a string of the given length:
\* the length of the result
substring(length, start, end) ==
    LET clamp(x) == IF x < 0 THEN 0 ELSE IF x > length THEN length ELSE x
    IN  IF clamp(end) >= clamp(start) THEN clamp(end) - clamp(start)
        ELSE clamp(start) - clamp(end)

\* the style switch of createLinkedInPost, lines 1054-1069
styledContent(article, style, keyPoints, random) ==
    CASE style = "question" -> createQuestionPost(article, keyPoints, random)
      [] style = "insight"  -> createInsightPost(article, keyPoints, random)
      [] style = "list"     -> createListPost(article, keyPoints)
      [] OTHER              -> createNewsSharePost(article, keyPoints, random)

\* one piece of the template literal of line 1085: what it is, the length
\* of the string it was made from, its length, whether it ends with "...",
\* the url it spells out
Piece(part, from, length, ellipsis, url) ==
    [part |-> part, from |-> from, length |-> length, ellipsis |-> ellipsis, url |-> url]

\* variant of createLinkedInPost that cuts the finished text at
\* maxCharacters instead of the body
createLinkedInPost_cutsWhole(article, style, random) ==
    LET keyPoints == extractKeyPoints(article)
        hashtags  == generateHashtags(article)
        content   == styledContent(article, style, keyPoints, random)
        hashtagString == joinLength(hashtags, 1)
        sourceText    == 10 + article.urlLength
        whole     == content.val + 2 + hashtagString + sourceText
        cut       == IF whole > maxCharacters THEN whole - maxCharacters ELSE 0
    IN  IF ~content.ok THEN content
        ELSE Ok([content |-> whole - cut,
                 layout |-> << Piece("body", content.val, content.val, FALSE, ""),
                               Piece("separator", 2, 2, FALSE, ""),
                               Piece("hashtags", hashtagString, hashtagString, FALSE, ""),
                               Piece("source", sourceText, sourceText - cut, FALSE,
                                     IF cut > 0 THEN "" ELSE article.url) >>,
                 hashtags |-> [i \in 1..Len(hashtags) |-> hashtags[i].hashtag],
                 sourceUrl |-> article.url, style |-> style,
                 characterCount |-> whole - cut])

\* createLinkedInPost, lines 1048-1098; `content` and characterCount are
\* finalContent.length, layout the pieces finalContent is put together from
createLinkedInPost(article, style, random) ==
    LET keyPoints == extractKeyPoints(article)
        hashtags  == generateHashtags(article)
        content   == styledContent(article, style, keyPoints, random)
        hashtagString == joinLength(hashtags, 1)
        sourceText    == 10 + article.urlLength
        maxContentLength == maxCharacters - hashtagString - sourceText - 10
    IN  IF ~content.ok THEN content
        ELSE LET tooLong == content.val > maxContentLength
                 fitted == IF tooLong
                           THEN substring(content.val, 0, maxContentLength - 3) + 3
                           ELSE content.val
                 finalContent == fitted + 2 + hashtagString + sourceText
             IN  Ok([content |-> finalContent,
                     layout |-> << Piece("body", content.val, fitted, tooLong, ""),
                                   Piece("separator", 2, 2, FALSE, ""),
                                   Piece("hashtags", hashtagString, hashtagString, FALSE, ""),
                                   Piece("source", sourceText, sourceText, FALSE,
                                         article.url) >>,
                     hashtags |-> [i \in 1..Len(hashtags) |-> hashtags[i].hashtag],
                     sourceUrl |-> article.url, style |-> style,
                     characterCount |-> finalContent])

\* variant of postsFrom in which the first failed post ends the loop
RECURSIVE postsFrom_stopsAtFailure(_, _, _)
postsFrom_stopsAtFailure(arts, i, randoms) ==
    IF i >= Min(Len(arts), 3) THEN <<>>
    ELSE LET post == createLinkedInPost(arts[i + 1], styles[(i % Len(styles)) + 1],
                                        randoms[i + 1])
         IN  IF post.ok THEN <<post.val>> \o postsFrom_stopsAtFailure(arts, i + 1, randoms)
             ELSE <<>>

\* generateLinkedInPosts, lines 1009-1042; randoms[i + 1] is the random
\* number drawn while post i is created
RECURSIVE postsFrom(_, _, _)
postsFrom(arts, i, randoms) ==
    IF i >= Min(Len(arts), 3) THEN <<>>
    ELSE LET post == createLinkedInPost(arts[i + 1], styles[(i % Len(styles)) + 1],
                                        randoms[i + 1])
         IN  (IF post.ok THEN <<post.val>> ELSE <<>>) \o postsFrom(arts, i + 1, randoms)

generateLinkedInPosts(arts, randoms) ==
    IF arts = <<>> THEN <<>> ELSE postsFrom(arts, 0, randoms)

\* the four result objects, lines 1458-1541
LiResult(kind, success, partial, arts, posts, error, message) ==
    [kind |-> kind, success |-> success, partial |-> partial, articles |-> arts,
     posts |-> posts, articlesFound |-> Len(arts), postsGenerated |-> Len(posts),
     error |-> error, message |-> message]

createSuccessResult(arts, posts) ==
    LiResult("success", TRUE, FALSE, arts, posts, "", "Workflow completed successfully")

\* variant of createPartialResult that does not hand the articles back
createPartialResult_dropsArticles(arts, posts, errorMessage) ==
    LiResult("partial", FALSE, TRUE, <<>>, posts, errorMessage,
             "Workflow partially completed with errors")

createPartialResult(arts, posts, errorMessage) ==
    LiResult("partial", FALSE, TRUE, arts, posts, errorMessage,
             "Workflow partially completed with errors")

createEmptyResult(reason) ==
    LiResult("empty", FALSE, FALSE, <<>>, <<>>, reason, "No data could be retrieved")

createErrorResult(error, arts, posts) ==
    LiResult("error", FALSE, FALSE, arts, posts, error, "Workflow failed with errors")

LiNoResult == LiResult("pending", FALSE, FALSE, <<>>, <<>>, "", "")

\* ---------------------------------------------------------------- state
VARIABLES
    program,          \* which agent this process runs: "ai-agent" or "linkedin-agent"
    liPc,             \* position of LinkedInAINewsAgent.run()
    liKeywordsOk,     \* config.aiKeywords is a non-empty list
    liTimeframe,      \* timeframe of the batch being searched
    liKwIndex,        \* keywords already searched in the current batch
    liBatches,        \* performSearch calls started by the current searchAINews
    liAll,            \* allArticles of searchAINews
    liCache,          \* this.cache: the cached article lists, oldest first
    liArticles,       \* articles of run()
    liPosts,          \* posts of run()
    liResult,         \* what run() resolved with
    liLog,            \* the search requests of the current searchAINews, in order
    liDayFound,       \* some past-day request of the current searchAINews returned articles
    liSearchErrors,   \* requests of the current searchAINews that threw (caught in the keyword loop)
    liData,           \* the query and the raw hits handed to parseSearchResults
    liConfig,         \* this.config: the cache section and search.maxResults
    handlers,         \* the requests the server is handling, each with its own agent
    page,             \* the browser page: AIGoodNewsUI, its elements and its requests
    liNow,            \* Date.now(), in ms
    liLastRequestTime, \* this.lastRequestTime
    liTimer,          \* when the setTimeout of enforceRateLimit is due
    liStarts,         \* the times at which the requests of the agent were started
    liPending,        \* a request is in flight
    geminiApiKey,     \* process.env.GEMINI_API_KEY is set
    newsApiKey,       \* process.env.NEWS_API_KEY is set
    store,            \* the file seen-articles.json
    storeAtStart,     \* the file as it was when the current agent was constructed
    pc,               \* position of run()
    seenArticles,     \* this.seenArticles
    kwIndex,          \* keywords already searched in the current batch
    searchErrors,     \* requests of the current batch that threw (caught in the keyword loop)
    allArticles,      \* the raw article list of the batch
    articles,         \* result of searchAINews
    analysisResponse, \* what the backend answered to the analysis request
    analysis,         \* result of analyzeWithGemini
    linkedinPost,     \* result of generateLinkedInPost
    result,           \* what the promise of run() settled with
    writeOutcome,     \* how the store write of the current run ended ("none": no write)
    log               \* network requests, stage returns and store writes, in order

goodVars == << geminiApiKey, newsApiKey, store, storeAtStart, pc, seenArticles, kwIndex,
               searchErrors, allArticles, articles, analysisResponse, analysis, linkedinPost, result, writeOutcome, log >>

liVars == << liPc, liKeywordsOk, liTimeframe, liKwIndex, liBatches, liAll, liCache,
             liArticles, liPosts, liResult, liLog, liDayFound, liSearchErrors >>

auxVars == << liData, liConfig, handlers, page, liNow, liLastRequestTime, liTimer, liStarts, liPending >>

vars == << program, goodVars, liVars, auxVars >>

\* CONFIG, lines 300-360: the values the cache functions read
cacheDuration == 3600000

maxEntries == 100

Config(enabled, duration, entries, results) ==
    [cacheEnabled |-> enabled, cacheDuration |-> duration, maxEntries |-> entries,
     maxResults |-> results]

CONFIG == Config(TRUE, cacheDuration, maxEntries, maxResults)

\* no answer in hand, the clock at rest, a fresh agent (lastRequestTime 0)
NoData == [query |-> <<>>, hits |-> <<>>]

AuxInit ==
    /\ liData = NoData
    /\ liConfig = CONFIG
    /\ handlers = <<>>
    /\ page = <<>>
    /\ liNow = 0
    /\ liLastRequestTime = 0
    /\ liTimer = 0
    /\ liStarts = <<>>
    /\ liPending = FALSE

Init ==
    /\ program \in {"ai-agent", "linkedin-agent"}
    /\ AuxInit
    /\ geminiApiKey \in (IF program = "ai-agent" THEN BOOLEAN ELSE {FALSE})
    /\ newsApiKey \in (IF program = "ai-agent" THEN BOOLEAN ELSE {FALSE})
    /\ liPc = "idle"
    /\ liKeywordsOk = TRUE
    /\ liTimeframe = "d"
    /\ liKwIndex = 0
    /\ liBatches = 0
    /\ liAll = <<>>
    /\ liCache = <<>>
    /\ liArticles = <<>>
    /\ liPosts = <<>>
    /\ liResult = LiNoResult
    /\ liLog = <<>>
    /\ liDayFound = FALSE
    /\ liSearchErrors = 0
    /\ store = StoreFile("missing", <<>>)
    /\ storeAtStart = StoreFile("missing", <<>>)
    /\ pc = "idle"
    /\ seenArticles = <<>>
    /\ kwIndex = 0
    /\ searchErrors = 0
    /\ allArticles = <<>>
    /\ articles = <<>>
    /\ analysisResponse = NoResponse
    /\ analysis = NoValue
    /\ linkedinPost = NoPost
    /\ result = NoResult
    /\ writeOutcome = "none"
    /\ log = <<>>

\* new AIGoodNewsAgent() followed by run(), as in POST /api/generate
Construct ==
    /\ program = "ai-agent"
    /\ pc \in {"idle", "done"}
    /\ pc' = "searching"
    /\ seenArticles' = loadSeenArticles(store)
    /\ storeAtStart' = store
    /\ kwIndex' = 0
    /\ searchErrors' = 0
    /\ allArticles' = <<>>
    /\ articles' = <<>>
    /\ analysisResponse' = NoResponse
    /\ analysis' = NoValue
    /\ linkedinPost' = NoPost
    /\ result' = NoResult
    /\ writeOutcome' = "none"
    /\ log' = <<>>
    /\ UNCHANGED << program, auxVars, liVars, geminiApiKey, newsApiKey, store >>

\* one iteration of the keyword loop of searchWithNewsAPI / searchWithDuckDuckGo
SearchKeywordStep(found, failed) ==
    /\ allArticles' = allArticles \o found
    /\ kwIndex' = kwIndex + 1
    /\ searchErrors' = searchErrors + (IF failed THEN 1 ELSE 0)
    /\ log' = Append(log, "search_request")
    /\ pc' = IF kwIndex + 1 = NumKeywords THEN "searched" ELSE "searching"
    /\ UNCHANGED << program, liVars, geminiApiKey, newsApiKey, store, storeAtStart, seenArticles, articles,
                    analysisResponse, analysis, linkedinPost, result, writeOutcome >>

\* variant of SearchKeywordFails in which the exception ends the keyword loop
SearchKeywordFails_aborts ==
    /\ pc = "searching"
    /\ pc' = "searched"
    /\ searchErrors' = searchErrors + 1
    /\ log' = Append(log, "search_request")
    /\ UNCHANGED << program, auxVars, liVars, geminiApiKey, newsApiKey, store, storeAtStart,
                    seenArticles, kwIndex, allArticles, articles, analysisResponse,
                    analysis, linkedinPost, result, writeOutcome >>

\* the request of one keyword throws (transport error, non-2xx status,
\* unparsable body): the catch inside the loop logs it
SearchKeywordFails ==
    /\ pc = "searching"
    /\ SearchKeywordStep(<<>>, TRUE)
    /\ UNCHANGED auxVars

SearchWithNewsAPI ==
    /\ pc = "searching"
    /\ newsApiKey
    /\ \E hits \in SeqsUpTo(NewsApiHits, MaxArticles - Len(allArticles)) :
          SearchKeywordStep(fromNewsAPI(hits), FALSE)
    /\ UNCHANGED auxVars

SearchWithDuckDuckGo ==
    /\ pc = "searching"
    /\ ~newsApiKey
    /\ \E topics \in SeqsUpTo(DuckDuckGoTopics, MaxArticles - Len(allArticles)) :
          SearchKeywordStep(fromDuckDuckGo(topics), FALSE)
    /\ UNCHANGED auxVars

\* variant of FilterSeen without the empty check of run()
FilterSeen_noEmptyCheck ==
    /\ pc = "searched"
    /\ searchErrors' = 0
    /\ articles' = filterSeen(allArticles, seenArticles)
    /\ result' = result
    /\ pc' = "analyzing"
    /\ UNCHANGED << program, auxVars, liVars, geminiApiKey, newsApiKey, store, storeAtStart,
                    seenArticles, kwIndex, allArticles, analysisResponse, analysis,
                    linkedinPost, writeOutcome, log >>

\* searchAINews lines 56-62 and the empty check of run, lines 324-329
FilterSeen ==
    /\ pc = "searched"
    /\ searchErrors' = 0
    /\ articles' = filterSeen(allArticles, seenArticles)
    /\ IF articles' = <<>>
       THEN /\ result' = noArticlesResult
            /\ pc' = "done"
       ELSE /\ result' = result
            /\ pc' = "analyzing"
    /\ UNCHANGED << program, auxVars, liVars, geminiApiKey, newsApiKey, store, storeAtStart, seenArticles, kwIndex,
                    allArticles, analysisResponse, analysis, linkedinPost, writeOutcome, log >>

RequestEvents(n) == IF n = 0 THEN <<>> ELSE <<"backend_request">>

\* run step 2 once the backend has answered (or was not asked)
AnalysisReturns(response) ==
    LET r == analyzeWithGemini(geminiApiKey, articles, response)
    IN  /\ analysisResponse' = response
        /\ log' = log \o RequestEvents(r.requests) \o <<"analysis_returned">>
        /\ IF r.ok
           THEN /\ analysis' = r.val
                /\ result' = result
                /\ pc' = "generating"
           ELSE /\ analysis' = analysis
                /\ result' = catchError(r.err)
                /\ pc' = "done"
        /\ UNCHANGED << program, liVars, geminiApiKey, newsApiKey, store, storeAtStart, seenArticles, kwIndex,
                        allArticles, articles, linkedinPost, writeOutcome, searchErrors >>

\* run step 2
AnalyzeWithGemini ==
    /\ pc = "analyzing"
    /\ \E response \in (IF geminiApiKey THEN AnalysisResponses(Len(articles)) ELSE {NoResponse}) :
          AnalysisReturns(response)
    /\ UNCHANGED auxVars

\* variant of GenerateLinkedInPost with steps 3 and 4 of run() swapped: the
\* store is written before the post is generated
GenerateLinkedInPost_afterSave ==
    /\ pc = "generating"
    /\ \E response \in (IF geminiApiKey THEN PostResponses ELSE {NoResponse}) :
          LET r == generateLinkedInPost(geminiApiKey, analysis, articles, response)
          IN  /\ log' = log \o <<"store_write">> \o RequestEvents(r.requests)
                            \o <<"post_returned">>
              /\ seenArticles' = markSeen(seenArticles, articles)
              /\ store' = saveSeenArticles(store, seenArticles', "ok")
              /\ IF r.ok
                 THEN /\ linkedinPost' = r.val
                      /\ result' = result
                      /\ pc' = "persisting"
                 ELSE /\ linkedinPost' = linkedinPost
                      /\ result' = catchError(r.err)
                      /\ pc' = "done"
    /\ UNCHANGED << program, auxVars, liVars, geminiApiKey, newsApiKey, storeAtStart, kwIndex,
                    allArticles, articles, analysisResponse, analysis, writeOutcome, searchErrors >>

\* run step 3 once the backend has answered (or was not asked)
PostReturns(response) ==
    LET r == generateLinkedInPost(geminiApiKey, analysis, articles, response)
    IN  /\ log' = log \o RequestEvents(r.requests) \o <<"post_returned">>
        /\ IF r.ok
           THEN /\ linkedinPost' = r.val
                /\ result' = result
                /\ pc' = "persisting"
           ELSE /\ linkedinPost' = linkedinPost
                /\ result' = catchError(r.err)
                /\ pc' = "done"
        /\ UNCHANGED << program, liVars, geminiApiKey, newsApiKey, store, storeAtStart, seenArticles, kwIndex,
                        allArticles, articles, analysisResponse, analysis, writeOutcome, searchErrors >>

\* run step 3
GenerateLinkedInPost ==
    /\ pc = "generating"
    /\ \E response \in (IF geminiApiKey THEN PostResponses ELSE {NoResponse}) :
          PostReturns(response)
    /\ UNCHANGED auxVars

\* run step 4 and the return
PersistAndReturn ==
    /\ pc = "persisting"
    /\ \E outcome \in WriteOutcomes :
          LET r == persistAndReturn(store, seenArticles, analysis, articles, linkedinPost, outcome)
          IN  /\ seenArticles' = r.seenArticles
              /\ store' = r.store
              /\ result' = r.result
              /\ writeOutcome' = outcome
    /\ log' = Append(log, "store_write")
    /\ pc' = "done"
    /\ UNCHANGED << program, auxVars, liVars, geminiApiKey, newsApiKey, storeAtStart, kwIndex, allArticles, articles,
                    analysisResponse, analysis, linkedinPost, searchErrors >>

\* ------------------------------------------- LinkedInAINewsAgent actions
\* new LinkedInAINewsAgent(config) and the start of run(): initialize()
LiStart ==
    /\ program = "linkedin-agent"
    /\ liPc \in {"idle", "done"}
    /\ \E keywordsOk \in BOOLEAN :
          /\ liKeywordsOk' = keywordsOk
          /\ IF keywordsOk
             THEN /\ liPc' = "searching"
                  /\ liResult' = LiNoResult
                  /\ liBatches' = 1
             ELSE /\ liPc' = "done"
                  /\ liResult' = createErrorResult("AI keywords configuration is required",
                                                   <<>>, <<>>)
                  /\ liBatches' = 0
    /\ liTimeframe' = "d"
    /\ liKwIndex' = 0
    /\ liAll' = <<>>
    /\ liCache' = <<>>
    /\ liArticles' = <<>>
    /\ liPosts' = <<>>
    /\ liLog' = <<>>
    /\ liDayFound' = FALSE
    /\ liSearchErrors' = 0
    /\ UNCHANGED << program, auxVars, goodVars >>

\* cacheArticles, lines 1588-1605 (cache enabled, never more than one entry
\* per agent: far below maxEntries)
cacheArticles(cache, arts) == IF arts = <<>> THEN cache ELSE Append(cache, arts)

\* one iteration of the keyword loop of performSearch; after the last keyword
\* of a batch, the rest of searchAINews and the empty check of run()
\* variant of noRecentArticles that never expands the search
noRecentArticles_never(batches, all) == FALSE

\* searchAINews, line 498, after the first performSearch
noRecentArticles(batches, all) == batches = 1 /\ Len(all) = 0

LiSearchKeywordStep(found, failed) ==
    LET all == liAll \o found
        lastOfBatch == liKwIndex + 1 = NumKeywords
        filtered == filterAndRankArticles(all)
    IN  /\ liAll' = all
        /\ liLog' = Append(liLog, IF liTimeframe = "d" THEN "search_d" ELSE "search_w")
        /\ liDayFound' = (liDayFound \/ (liTimeframe = "d" /\ Len(found) > 0))
        /\ liSearchErrors' = liSearchErrors + (IF failed THEN 1 ELSE 0)
        /\ IF ~lastOfBatch
           THEN /\ liKwIndex' = liKwIndex + 1
                /\ UNCHANGED << liPc, liTimeframe, liBatches, liCache, liArticles, liResult >>
           ELSE IF noRecentArticles(liBatches, all)
           THEN /\ liKwIndex' = 0
                /\ liTimeframe' = "w"
                /\ liBatches' = 2
                /\ UNCHANGED << liPc, liCache, liArticles, liResult >>
           ELSE /\ liKwIndex' = liKwIndex + 1
                /\ liCache' = cacheArticles(liCache, all)
                /\ liArticles' = filtered
                /\ IF filtered = <<>>
                   THEN /\ liResult' = createEmptyResult("No articles found")
                        /\ liPc' = "done"
                   ELSE /\ liResult' = liResult
                        /\ liPc' = "generating"
                /\ UNCHANGED << liTimeframe, liBatches >>
        /\ UNCHANGED << program, goodVars, liKeywordsOk, liPosts >>

\* duckDuckGoSearch rejects (timeout, transport error): caught per keyword
LiSearchKeywordFails ==
    /\ liPc = "searching"
    /\ LiSearchKeywordStep(<<>>, TRUE)
    /\ UNCHANGED auxVars

\* duckDuckGoSearch resolves with the parsed articles
LiSearchKeywordReturns ==
    /\ liPc = "searching"
    /\ \E data \in ProviderAnswers(MaxHits - Len(liAll)) :
          LiSearchKeywordStep(parseSearchResults(data), FALSE)
    /\ UNCHANGED auxVars

\* run step 2, lines 421-446.  postsConfigured: the config the agent was
\* constructed with has a posts section; without it generateLinkedInPosts
\* throws at line 1018, which nothing reads before this step
LiGeneratePosts ==
    /\ liPc = "generating"
    /\ \E randoms \in [1..Min(Len(liArticles), 3) -> 0..MaxRandom], postsConfigured \in BOOLEAN :
          LET r == IF postsConfigured THEN Ok(generateLinkedInPosts(liArticles, randoms))
                   ELSE Throw("TypeError")
          IN  /\ liPosts' = IF r.ok THEN r.val ELSE <<>>
              /\ IF ~r.ok
                 THEN /\ liResult' = createPartialResult(liArticles, <<>>, "Post generation error")
                      /\ liPc' = "done"
                 ELSE IF r.val = <<>>
                 THEN /\ liResult' = createPartialResult(liArticles, <<>>, "Post generation failed")
                      /\ liPc' = "done"
                 ELSE /\ liResult' = liResult
                      /\ liPc' = "display"
    /\ liSearchErrors' = 0
    /\ UNCHANGED << program, auxVars, goodVars, liKeywordsOk, liTimeframe, liKwIndex, liBatches,
                    liAll, liCache, liArticles, liLog, liDayFound >>

\* variant of LiDisplayAndReturn in which a display failure fails the run
LiDisplayAndReturn_failsOnThrow ==
    /\ liPc = "display"
    /\ \E displayThrows \in BOOLEAN :
          liResult' = IF displayThrows THEN createErrorResult("TypeError", liArticles, liPosts)
                      ELSE createSuccessResult(liArticles, liPosts)
    /\ liPc' = "done"
    /\ UNCHANGED << program, auxVars, goodVars, liKeywordsOk, liTimeframe, liKwIndex, liBatches,
                    liAll, liCache, liArticles, liPosts, liLog, liDayFound, liSearchErrors >>

\* run step 3 and the return, lines 448-460: a display failure is caught
LiDisplayAndReturn ==
    /\ liPc = "display"
    /\ \E displayThrows \in BOOLEAN :
          liResult' = createSuccessResult(liArticles, liPosts)
    /\ liPc' = "done"
    /\ UNCHANGED << program, auxVars, goodVars, liKeywordsOk, liTimeframe, liKwIndex, liBatches,
                    liAll, liCache, liArticles, liPosts, liLog, liDayFound, liSearchErrors >>

Next ==
    \/ Construct
    \/ SearchKeywordFails
    \/ SearchWithNewsAPI
    \/ SearchWithDuckDuckGo
    \/ FilterSeen
    \/ AnalyzeWithGemini
    \/ GenerateLinkedInPost
    \/ PersistAndReturn
    \/ LiStart
    \/ LiSearchKeywordFails
    \/ LiSearchKeywordReturns
    \/ LiGeneratePosts
    \/ LiDisplayAndReturn

Spec == Init /\ [][Next]_vars

\* ======================================================================
\* createLinkedInPost on its own: any article, any style
\* ======================================================================
\* the styles a caller may pass; "other" takes the default branch of the switch
PostStyles == Range(styles) \cup {"other"}

HashtagKeywords == {hashtagMap[i].keyword : i \in 1..Len(hashtagMap)}

TopicSets == {S \in SUBSET HashtagKeywords : Cardinality(S) <= MaxTopics}

\* summaries: one short key point; three long key points behind a sentence
\* too long to be one; a long text without any key point
PostTexts(terms) ==
    { Text(60, terms, terms, 0, << Sentence(55, TRUE, 1) >>),
      Text(5000, terms, terms, 0,
           << Sentence(250, TRUE, 9), Sentence(199, TRUE, 3), Sentence(199, TRUE, 5),
              Sentence(190, TRUE, 4), Sentence(15, TRUE, 7) >>),
      Text(5000, terms, terms, 0, << Sentence(4990, FALSE, 0) >>) }

UrlLengths == {25, 2200, 2950, 2990}

PostArticles ==
    { Article("u1", 25, "wired.com", {"wired.com"}, 90, TRUE, text) :
          text \in UNION {PostTexts(terms) : terms \in TopicSets} }
    \cup
    { Article("u1", urlLength, "wired.com", {"wired.com"}, 90, titleIsString, text) :
          urlLength \in UrlLengths, titleIsString \in BOOLEAN,
          text \in PostTexts({}) \cup PostTexts({"openai", "startup", "future"}) }

PostInit ==
    /\ program = "createLinkedInPost"
    /\ AuxInit
    /\ liArticles \in {<<article>> : article \in PostArticles}
    /\ liPosts = <<>>
    /\ liPc = "generating"
    /\ geminiApiKey = FALSE
    /\ newsApiKey = FALSE
    /\ liKeywordsOk = TRUE
    /\ liTimeframe = "d"
    /\ liKwIndex = 0
    /\ liBatches = 0
    /\ liAll = <<>>
    /\ liCache = <<>>
    /\ liResult = LiNoResult
    /\ liLog = <<>>
    /\ liDayFound = FALSE
    /\ liSearchErrors = 0
    /\ store = StoreFile("missing", <<>>)
    /\ storeAtStart = StoreFile("missing", <<>>)
    /\ pc = "idle"
    /\ seenArticles = <<>>
    /\ kwIndex = 0
    /\ searchErrors = 0
    /\ allArticles = <<>>
    /\ articles = <<>>
    /\ analysisResponse = NoResponse
    /\ analysis = NoValue
    /\ linkedinPost = NoPost
    /\ result = NoResult
    /\ writeOutcome = "none"
    /\ log = <<>>

\* one call createLinkedInPost(article, style)
CreateLinkedInPost ==
    /\ program = "createLinkedInPost"
    /\ liPc = "generating"
    /\ \E style \in PostStyles, random \in Randoms :
          LET post == createLinkedInPost(liArticles[1], style, random)
          IN  liPosts' = IF post.ok THEN <<post.val>> ELSE <<>>
    /\ liPc' = "done"
    /\ UNCHANGED << program, auxVars, goodVars, liKeywordsOk, liTimeframe, liKwIndex, liBatches,
                    liAll, liCache, liArticles, liResult, liLog, liDayFound, liSearchErrors >>

PostNext == CreateLinkedInPost

PostSpec == PostInit /\ [][PostNext]_vars

\* ======================================================================
\* POST /api/regenerate-post (src/server.js)
\* ======================================================================
MaxRegenerations == 2  \* requests one behaviour sends to the endpoint

\* entries of req.body.articles: Undefined is an absent originalIndex, "" an
\* absent url or source
SubmittedArticles ==
    { [rank |-> 1, title |-> <<"Test">>, summary |-> <<"Test", "summary">>,
       originalIndex |-> i, url |-> u, source |-> IF u = "" THEN "" ELSE extractDomain(u)] :
          i \in {Undefined, 0, 1, 3}, u \in {"", "u1"} }

\* the article lists of earlier runs and the analyses made of them
MaxEarlierArticles == 2

EarlierRuns ==
    UNION { { [articles |-> fromNewsAPI(hits), analysis |-> a] :
                 a \in {fallbackAnalysis(fromNewsAPI(hits))} \cup BackendAnalyses(Len(hits)) } :
            hits \in SeqsUpTo(NewsApiHits, MaxEarlierArticles) \ {<<>>} }

\* run() returned success for it: the post was generated and every
\* originalIndex of the analysis is an index of the article list
Succeeded(run) ==
    /\ generateFallbackPost(run.analysis, run.articles).ok
    /\ resultArticles(run.analysis, run.articles).ok

\* what the page sends after that result (script.js lines 243-246): the
\* articles of the success object of run() (part_005 lines 349-353: the
\* entry of topArticles with url and source added) and its overallTrend
resultBody(run) ==
    LET top == run.analysis.topArticles
        out == resultArticles(run.analysis, run.articles).val
    IN  [hasArticles |-> TRUE,
         articles |-> [r \in 1..Len(top) |->
                         [rank |-> top[r].rank, title |-> top[r].title,
                          summary |-> top[r].summary,
                          originalIndex |-> top[r].originalIndex,
                          url |-> out[r].url, source |-> out[r].source]],
         overallTrend |-> run.analysis.overallTrend]

\* req.body: no articles field, an empty list, a list of entries, or the
\* result of an earlier successful run
RegenerateBodies ==
    { [hasArticles |-> FALSE, articles |-> <<>>, overallTrend |-> "Positive developments"] }
    \cup
    { [hasArticles |-> TRUE, articles |-> arts, overallTrend |-> "Positive developments"] :
          arts \in SeqsUpTo(SubmittedArticles, 2) }
    \cup
    { resultBody(run) : run \in { e \in EarlierRuns : Succeeded(e) } }

\* the stores the server may find on disk when the request arrives
RegenerateStores ==
    { StoreFile("missing", <<>>), StoreFile("corrupt", <<>>),
      StoreFile("valid", <<>>), StoreFile("valid", <<"u1">>), StoreFile("valid", <<"u1", "u2">>) }

\* what res.json / res.status(...).json sends
Response(status, success, error, post) ==
    [status |-> status, success |-> success, error |-> error, linkedinPost |-> post]

NoResponseSent == Response(0, FALSE, "", NoPost)

\* lines 52-58: analysis and mockArticles built from the submitted entries
regenerateAnalysis(body) ==
    [hasTopArticles |-> TRUE, topArticles |-> body.articles, overallTrend |-> body.overallTrend]

mockArticles(submitted) ==
    [i \in 1..Len(submitted) |->
        [title |-> submitted[i].title, description |-> submitted[i].summary,
         url |-> submitted[i].url, source |-> submitted[i].source]]

Handled(file, seen, arts, topAnalysis, post, response, requests) ==
    [store |-> file, seenArticles |-> seen, articles |-> arts, analysis |-> topAnalysis,
     linkedinPost |-> post, response |-> response, requests |-> requests]

\* variant of regeneratePost that marks the submitted articles seen, as run() does
regeneratePost_marksSeen(file, apiKey, body, response) ==
    IF ~body.hasArticles \/ body.articles = <<>>
    THEN Handled(file, <<>>, <<>>, NoValue, NoPost,
                 Response(400, FALSE, "No articles provided for regeneration", NoPost), 0)
    ELSE LET seen == markSeen(loadSeenArticles(file), mockArticles(body.articles))
             r == generateLinkedInPost(apiKey, regenerateAnalysis(body),
                                       mockArticles(body.articles), response)
         IN  Handled(saveSeenArticles(file, seen, "ok"), seen, mockArticles(body.articles),
                     regenerateAnalysis(body), IF r.ok THEN r.val ELSE NoPost,
                     IF r.ok THEN Response(200, TRUE, "", r.val)
                     ELSE Response(500, FALSE, "Regeneration failed", NoPost), r.requests)

\* the handler, lines 39-75
regeneratePost(file, apiKey, body, response) ==
    IF ~body.hasArticles \/ body.articles = <<>>
    THEN Handled(file, <<>>, <<>>, NoValue, NoPost,
                 Response(400, FALSE, "No articles provided for regeneration", NoPost), 0)
    ELSE LET seen == loadSeenArticles(file)
             r == generateLinkedInPost(apiKey, regenerateAnalysis(body),
                                       mockArticles(body.articles), response)
         IN  Handled(file, seen, mockArticles(body.articles),
                     regenerateAnalysis(body), IF r.ok THEN r.val ELSE NoPost,
                     IF r.ok THEN Response(200, TRUE, "", r.val)
                     ELSE Response(500, FALSE, "Regeneration failed", NoPost), r.requests)

RegenInit ==
    /\ program = "regenerate-post"
    /\ AuxInit
    /\ geminiApiKey \in BOOLEAN
    /\ newsApiKey \in BOOLEAN
    /\ store \in RegenerateStores
    /\ storeAtStart = store
    /\ result = NoResponseSent
    /\ liPc = "idle"
    /\ liKeywordsOk = TRUE
    /\ liTimeframe = "d"
    /\ liKwIndex = 0
    /\ liBatches = 0
    /\ liAll = <<>>
    /\ liCache = <<>>
    /\ liArticles = <<>>
    /\ liPosts = <<>>
    /\ liResult = LiNoResult
    /\ liLog = <<>>
    /\ liDayFound = FALSE
    /\ liSearchErrors = 0
    /\ pc = "idle"
    /\ seenArticles = <<>>
    /\ kwIndex = 0
    /\ searchErrors = 0
    /\ allArticles = <<>>
    /\ articles = <<>>
    /\ analysisResponse = NoResponse
    /\ analysis = NoValue
    /\ linkedinPost = NoPost
    /\ writeOutcome = "none"
    /\ log = <<>>

\* one request to the endpoint, from its arrival to the response
RegeneratePost ==
    /\ program = "regenerate-post"
    /\ Cardinality({i \in 1..Len(log) : log[i] = "regenerate_request"}) < MaxRegenerations
    /\ \E body \in RegenerateBodies,
          response \in (IF geminiApiKey THEN PostResponses ELSE {NoResponse}) :
          LET h == regeneratePost(store, geminiApiKey, body, response)
          IN  /\ store' = h.store
              /\ seenArticles' = h.seenArticles
              /\ articles' = h.articles
              /\ analysis' = h.analysis
              /\ linkedinPost' = h.linkedinPost
              /\ result' = h.response
              /\ log' = log \o <<"regenerate_request">> \o RequestEvents(h.requests)
    /\ pc' = "done"
    /\ UNCHANGED << program, auxVars, liVars, geminiApiKey, newsApiKey, storeAtStart, kwIndex,
                    searchErrors, allArticles, analysisResponse, writeOutcome >>

RegenNext == RegeneratePost

RegenSpec == RegenInit /\ [][RegenNext]_vars

\* ======================================================================
\* filterAndRankArticles and generateLinkedInPosts on their own: article
\* lists longer than maxResults
\* ======================================================================
MaxRanked == maxResults + 2

RankUrls == << "u1", "u2", "u3", "u4", "u5", "u6", "u7", "u8", "u9", "u10", "u11", "u12",
               "u13", "u14" >>

\* the i-th article of list (m, k, dupes): sources alternate between a
\* preferred and another one, scores run over 35..100 with step m, every
\* third title is not a string, some entries are short or from an excluded
\* source, and with dupes every url occurs twice
RankArticle(i, m, k, dupes) ==
    LET isExcluded == k = 2 /\ i % 5 = 4
        isPreferred == (i + k) % 2 = 0
    IN  Article(RankUrls[IF dupes THEN (i + 1) \div 2 ELSE i], 25,
                IF isExcluded THEN "news.spam-site.com"
                ELSE IF isPreferred THEN "wired.com" ELSE "example.com",
                IF isExcluded THEN {"spam-site.com"}
                ELSE IF isPreferred THEN {"wired.com"} ELSE {},
                35 + (((i * m + k) * 7) % 66),
                (i + k) % 3 # 0,
                Text(IF i % 7 = 6 THEN 90 ELSE 150, {}, {}, 0, << Sentence(60, TRUE, 3) >>))

RankInputs ==
    { [i \in 1..n |-> RankArticle(i, m, k, dupes)] :
          n \in 0..MaxRanked, m \in 1..4, k \in 0..3, dupes \in BOOLEAN }

RankInit ==
    /\ program = "filterAndRankArticles"
    /\ AuxInit
    /\ liAll \in RankInputs
    /\ liPc = "searched"
    /\ liArticles = <<>>
    /\ liPosts = <<>>
    /\ geminiApiKey = FALSE
    /\ newsApiKey = FALSE
    /\ liKeywordsOk = TRUE
    /\ liTimeframe = "d"
    /\ liKwIndex = 0
    /\ liBatches = 0
    /\ liCache = <<>>
    /\ liResult = LiNoResult
    /\ liLog = <<>>
    /\ liDayFound = FALSE
    /\ liSearchErrors = 0
    /\ store = StoreFile("missing", <<>>)
    /\ storeAtStart = StoreFile("missing", <<>>)
    /\ pc = "idle"
    /\ seenArticles = <<>>
    /\ kwIndex = 0
    /\ searchErrors = 0
    /\ allArticles = <<>>
    /\ articles = <<>>
    /\ analysisResponse = NoResponse
    /\ analysis = NoValue
    /\ linkedinPost = NoPost
    /\ result = NoResult
    /\ writeOutcome = "none"
    /\ log = <<>>

\* one call filterAndRankArticles(allArticles)
FilterAndRankArticles ==
    /\ program = "filterAndRankArticles"
    /\ liPc = "searched"
    /\ liArticles' = filterAndRankArticles(liAll)
    /\ liPc' = "generating"
    /\ UNCHANGED << program, auxVars, goodVars, liKeywordsOk, liTimeframe, liKwIndex, liBatches,
                    liAll, liCache, liPosts, liResult, liLog, liDayFound, liSearchErrors >>

\* one call generateLinkedInPosts(articles)
GenerateLinkedInPosts ==
    /\ program = "filterAndRankArticles"
    /\ liPc = "generating"
    /\ \E randoms \in [1..Min(Len(liArticles), 3) -> 0..MaxRandom] :
          liPosts' = generateLinkedInPosts(liArticles, randoms)
    /\ liPc' = "done"
    /\ UNCHANGED << program, auxVars, goodVars, liKeywordsOk, liTimeframe, liKwIndex, liBatches,
                    liAll, liCache, liArticles, liResult, liLog, liDayFound, liSearchErrors >>

RankNext == FilterAndRankArticles \/ GenerateLinkedInPosts

RankSpec == RankInit /\ [][RankNext]_vars

\* ======================================================================
\* run() on an agent whose cache was filled by an earlier search
\* ======================================================================
\* getCachedArticles, lines 1565-1583: the data of the fresh entries, cut to
\* maxResults (the entries of the model are fresh ones)
RECURSIVE cachedData(_)
cachedData(cache) ==
    IF cache = <<>> THEN <<>> ELSE Head(cache) \o cachedData(Tail(cache))

getCachedArticles(cache) ==
    LET cachedArticles == cachedData(cache)
    IN  SubSeq(cachedArticles, 1, Min(maxResults, Len(cachedArticles)))

\* this.cache after an earlier searchAINews of the same agent
EarlierCaches ==
    { <<>>,
      cacheArticles(<<>>, parseSearchResults(
          [abstract |-> NoAbstract,
           RelatedTopics |-> << CHOOSE t \in RelatedTopics : t.FirstURL = "u1" >>])),
      cacheArticles(<<>>, parseSearchResults(
          [abstract |-> CHOOSE a \in Abstracts : a.AbstractURL = "u2",
           RelatedTopics |-> << CHOOSE t \in RelatedTopics : t.FirstURL = "u4" >>])) }

CacheInit ==
    /\ program = "linkedin-agent"
    /\ AuxInit
    /\ liCache \in EarlierCaches
    /\ liPc = "idle"
    /\ geminiApiKey = FALSE
    /\ newsApiKey = FALSE
    /\ liKeywordsOk = TRUE
    /\ liTimeframe = "d"
    /\ liKwIndex = 0
    /\ liBatches = 0
    /\ liAll = <<>>
    /\ liArticles = <<>>
    /\ liPosts = <<>>
    /\ liResult = LiNoResult
    /\ liLog = <<>>
    /\ liDayFound = FALSE
    /\ liSearchErrors = 0
    /\ store = StoreFile("missing", <<>>)
    /\ storeAtStart = StoreFile("missing", <<>>)
    /\ pc = "idle"
    /\ seenArticles = <<>>
    /\ kwIndex = 0
    /\ searchErrors = 0
    /\ allArticles = <<>>
    /\ articles = <<>>
    /\ analysisResponse = NoResponse
    /\ analysis = NoValue
    /\ linkedinPost = NoPost
    /\ result = NoResult
    /\ writeOutcome = "none"
    /\ log = <<>>

\* a further run() of the agent: initialize() returns at once, the cache stays
LiRunAgain ==
    /\ program = "linkedin-agent"
    /\ liPc = "idle"
    /\ liPc' = "searching"
    /\ liResult' = LiNoResult
    /\ liBatches' = 1
    /\ liTimeframe' = "d"
    /\ liKwIndex' = 0
    /\ liAll' = <<>>
    /\ liArticles' = <<>>
    /\ liPosts' = <<>>
    /\ liLog' = <<>>
    /\ liDayFound' = FALSE
    /\ liSearchErrors' = 0
    /\ UNCHANGED << program, auxVars, goodVars, liKeywordsOk, liCache >>

CacheNext ==
    \/ LiRunAgain
    \/ LiSearchKeywordFails
    \/ LiSearchKeywordReturns
    \/ LiGeneratePosts
    \/ LiDisplayAndReturn

CacheSpec == CacheInit /\ [][CacheNext]_vars

\* ======================================================================
\* calculateRelevanceScore, parseSearchResults and filterAndRankArticles on
\* the hits of one answer
\* ======================================================================
MaxMatches == 2        \* matches of one query word in one text

\* "artificial intelligence" (two words that count) and "AI ethics" (the
\* first word has 2 characters); matches[w] is the number of matches of word w
QueryWords(lengths, matches) ==
    [w \in 1..Len(lengths) |-> [length |-> lengths[w], matches |-> matches[w]]]

ScoreQueries ==
    { QueryWords(lengths, matches) :
          lengths \in { << 10, 12 >>, << 2, 6 >> },
          matches \in [1..2 -> 0..MaxMatches] }

ScoreSentences == << Sentence(60, TRUE, 3) >>

\* a hit of 40 characters, a hit of 150 characters that holds "breakthrough"
\* and "machine learning", and possibly a third hit
ScoreHits(query) ==
    { << RelatedTopic("u1", 28, "wired.com", {"wired.com"},
             Text(40, {"breakthrough", "machine learning"} \cup extra, {},
                  matchCount(query), ScoreSentences)),
         RelatedTopic("u2", 31, "example.com", {},
             Text(150, {"breakthrough", "machine learning"} \cup extra, {},
                  matchCount(query), ScoreSentences)) >> \o third :
          extra \in SUBSET {"ai", "funding"},
          third \in { <<>> } \cup
              { << RelatedTopic("u3", 30, "example.com", {},
                       Text(150, terms, {}, matchCount(query), ScoreSentences)) >> :
                    terms \in { {"automation", "research"},
                                {"algorithm", "chatgpt", "launched", "announced"},
                                {"neural network", "deep learning", "generative ai",
                                 "generative", "ai", "openai", "announced"},
                                {"machine learning"} } } }

ScoreInit ==
    /\ program = "calculateRelevanceScore"
    /\ \E query \in ScoreQueries :
          \E hits \in ScoreHits(query) : liData = [query |-> query, hits |-> hits]
    /\ liConfig = CONFIG
    /\ handlers = <<>>
    /\ page = <<>>
    /\ liNow = 0
    /\ liLastRequestTime = 0
    /\ liTimer = 0
    /\ liStarts = <<>>
    /\ liPending = FALSE
    /\ liPc = "searching"
    /\ liAll = <<>>
    /\ liArticles = <<>>
    /\ liPosts = <<>>
    /\ geminiApiKey = FALSE
    /\ newsApiKey = FALSE
    /\ liKeywordsOk = TRUE
    /\ liTimeframe = "d"
    /\ liKwIndex = 0
    /\ liBatches = 0
    /\ liCache = <<>>
    /\ liResult = LiNoResult
    /\ liLog = <<>>
    /\ liDayFound = FALSE
    /\ liSearchErrors = 0
    /\ store = StoreFile("missing", <<>>)
    /\ storeAtStart = StoreFile("missing", <<>>)
    /\ pc = "idle"
    /\ seenArticles = <<>>
    /\ kwIndex = 0
    /\ searchErrors = 0
    /\ allArticles = <<>>
    /\ articles = <<>>
    /\ analysisResponse = NoResponse
    /\ analysis = NoValue
    /\ linkedinPost = NoPost
    /\ result = NoResult
    /\ writeOutcome = "none"
    /\ log = <<>>

\* parseSearchResults(jsonData, query) on the hits
ParseSearchResults ==
    /\ program = "calculateRelevanceScore"
    /\ liPc = "searching"
    /\ liAll' = parseSearchResults([abstract |-> NoAbstract, RelatedTopics |-> liData.hits])
    /\ liPc' = "searched"
    /\ UNCHANGED << program, auxVars, goodVars, liKeywordsOk, liTimeframe, liKwIndex, liBatches,
                    liCache, liArticles, liPosts, liResult, liLog, liDayFound, liSearchErrors >>

\* filterAndRankArticles on the parsed articles
FilterParsed ==
    /\ program = "calculateRelevanceScore"
    /\ liPc = "searched"
    /\ liArticles' = filterAndRankArticles(liAll)
    /\ liPc' = "done"
    /\ UNCHANGED << program, auxVars, goodVars, liKeywordsOk, liTimeframe, liKwIndex, liBatches,
                    liAll, liCache, liPosts, liResult, liLog, liDayFound, liSearchErrors >>

ScoreNext == ParseSearchResults \/ FilterParsed

ScoreSpec == ScoreInit /\ [][ScoreNext]_vars

\* ======================================================================
\* The requests of one searchAINews in time: enforceRateLimit, the request,
\* the next keyword (src/unnamed/part_004, lines 535-559 and 1616-1627)
\* ======================================================================
rateLimitDelay == 1000

TickMs == rateLimitDelay \div 2

\* the clock of the model stops here
MaxClock == (2 * NumKeywords + 3) * rateLimitDelay

\* variant of waitTime that never waits
waitTime_none(now, lastRequestTime, delay) == 0

\* enforceRateLimit, lines 1617-1623: the time to wait, 0 for no wait
waitTime(now, lastRequestTime, delay) ==
    LET timeSinceLastRequest == now - lastRequestTime
    IN  IF timeSinceLastRequest < delay THEN delay - timeSinceLastRequest ELSE 0

RateInit ==
    /\ program = "performSearch"
    /\ liData = NoData
    /\ liConfig = CONFIG
    /\ handlers = <<>>
    /\ page = <<>>
    /\ liNow \in {2 * rateLimitDelay, 2 * rateLimitDelay + TickMs}
    /\ liLastRequestTime = 0
    /\ liTimer = 0
    /\ liStarts = <<>>
    /\ liPending = FALSE
    /\ liPc = "rate_limit"
    /\ liTimeframe = "d"
    /\ liKwIndex = 0
    /\ liBatches = 1
    /\ liDayFound = FALSE
    /\ liSearchErrors = 0
    /\ liAll = <<>>
    /\ liArticles = <<>>
    /\ liPosts = <<>>
    /\ geminiApiKey = FALSE
    /\ newsApiKey = FALSE
    /\ liKeywordsOk = TRUE
    /\ liCache = <<>>
    /\ liResult = LiNoResult
    /\ liLog = <<>>
    /\ store = StoreFile("missing", <<>>)
    /\ storeAtStart = StoreFile("missing", <<>>)
    /\ pc = "idle"
    /\ seenArticles = <<>>
    /\ kwIndex = 0
    /\ searchErrors = 0
    /\ allArticles = <<>>
    /\ articles = <<>>
    /\ analysisResponse = NoResponse
    /\ analysis = NoValue
    /\ linkedinPost = NoPost
    /\ result = NoResult
    /\ writeOutcome = "none"
    /\ log = <<>>

RateFrame ==
    UNCHANGED << program, goodVars, liData, liConfig, handlers, page, liKeywordsOk, liAll, liCache, liArticles, liPosts,
                 liResult, liLog >>

\* time passes while the agent awaits the timer or the answer; between two
\* awaits the code runs to completion
Tick ==
    /\ program = "performSearch"
    /\ liPc \in {"waiting", "requesting"}
    /\ liNow + TickMs <= MaxClock
    /\ liNow' = liNow + TickMs
    /\ UNCHANGED << liLastRequestTime, liTimer, liStarts, liPending, liPc, liTimeframe,
                    liKwIndex, liBatches, liDayFound, liSearchErrors >>
    /\ RateFrame

\* enforceRateLimit, lines 1617-1623: either the timer is set, or
\* lastRequestTime is stamped at once and duckDuckGoSearch issues https.get
EnforceRateLimit ==
    /\ program = "performSearch"
    /\ liPc = "rate_limit"
    /\ IF waitTime(liNow, liLastRequestTime, rateLimitDelay) > 0
       THEN /\ liTimer' = liNow + waitTime(liNow, liLastRequestTime, rateLimitDelay)
            /\ liPc' = "waiting"
            /\ UNCHANGED << liLastRequestTime, liStarts, liPending >>
       ELSE /\ liLastRequestTime' = liNow
            /\ liStarts' = Append(liStarts, liNow)
            /\ liPending' = TRUE
            /\ liPc' = "requesting"
            /\ UNCHANGED liTimer
    /\ UNCHANGED << liNow, liTimeframe, liKwIndex, liBatches, liDayFound, liSearchErrors >>
    /\ RateFrame

\* the timer is due: line 1626, then duckDuckGoSearch issues https.get
TimerFires ==
    /\ program = "performSearch"
    /\ liPc = "waiting"
    /\ liNow >= liTimer
    /\ liLastRequestTime' = liNow
    /\ liStarts' = Append(liStarts, liNow)
    /\ liPending' = TRUE
    /\ liPc' = "requesting"
    /\ UNCHANGED << liNow, liTimer, liTimeframe, liKwIndex, liBatches, liDayFound,
                    liSearchErrors >>
    /\ RateFrame

\* the request ends (an answer with or without articles, an error, or the
\* timeout, which destroys the request); the loop goes to the next keyword
\* and searchAINews to the week batch when the day batch found nothing
RequestSettles ==
    /\ program = "performSearch"
    /\ liPc = "requesting"
    /\ liPending' = FALSE
    /\ \E outcome \in {"articles", "nothing", "error"} :
          LET found == liDayFound \/ (liTimeframe = "d" /\ outcome = "articles")
              anyArticle == found \/ outcome = "articles"
          IN  /\ liDayFound' = found
              /\ liSearchErrors' = liSearchErrors + (IF outcome = "error" THEN 1 ELSE 0)
              /\ IF liKwIndex + 1 < NumKeywords
                 THEN /\ liKwIndex' = liKwIndex + 1
                      /\ liPc' = "rate_limit"
                      /\ UNCHANGED << liTimeframe, liBatches >>
                 ELSE IF liBatches = 1 /\ ~anyArticle
                 THEN /\ liKwIndex' = 0
                      /\ liTimeframe' = "w"
                      /\ liBatches' = 2
                      /\ liPc' = "rate_limit"
                 ELSE /\ liKwIndex' = liKwIndex + 1
                      /\ liPc' = "searched"
                      /\ UNCHANGED << liTimeframe, liBatches >>
    /\ UNCHANGED << liNow, liLastRequestTime, liTimer, liStarts >>
    /\ RateFrame

RateNext ==
    \/ Tick
    \/ EnforceRateLimit
    \/ TimerFires
    \/ RequestSettles

RateSpec == RateInit /\ [][RateNext]_vars

\* ======================================================================
\* this.cache over time: cacheArticles and getCachedArticles with the entry
\* keys, the timestamps and the configured bounds (src/unnamed/part_004,
\* lines 1566-1605).  The clock counts in units of half a cache duration.
\* ======================================================================
MaxCacheEntries == 2   \* largest config.cache.maxEntries of the model

MaxCacheClock == 3     \* the clock of the model stops here

CacheAge == 2          \* config.cache.duration of the model

CacheConfigs ==
    { Config(enabled, CacheAge, entries, results) :
          enabled \in BOOLEAN, entries \in 1..MaxCacheEntries, results \in 1..2 }

\* the article lists handed to cacheArticles and the queries they belong to
CachedLists ==
    { <<>>, << RankArticle(1, 1, 0, FALSE) >>,
      << RankArticle(2, 1, 0, FALSE), RankArticle(3, 1, 0, FALSE) >> }

CacheQueries == {"ai_news_search", "fallback_search"}

\* Map.prototype.set: an existing key keeps its place, a new one goes last
mapSet(cache, key, value) ==
    IF \E i \in 1..Len(cache) : cache[i].key = key
    THEN [i \in 1..Len(cache) |-> IF cache[i].key = key THEN value ELSE cache[i]]
    ELSE Append(cache, value)

\* variant of cacheArticlesAt without the clean-up of old entries
cacheArticlesAt_keepsAll(config, cache, arts, query, now) ==
    IF ~config.cacheEnabled \/ arts = <<>> THEN cache
    ELSE mapSet(cache, <<query, now>>,
                [key |-> <<query, now>>, data |-> arts, timestamp |-> now, query |-> query])

\* cacheArticles, lines 1588-1605, called at time now
cacheArticlesAt(config, cache, arts, query, now) ==
    IF ~config.cacheEnabled \/ arts = <<>> THEN cache
    ELSE LET cacheKey == <<query, now>>
             set == mapSet(cache, cacheKey,
                           [key |-> cacheKey, data |-> arts, timestamp |-> now,
                            query |-> query])
         IN  IF Len(set) > config.maxEntries THEN Tail(set) ELSE set

\* the loop of getCachedArticles, lines 1572-1580
RECURSIVE freshData(_, _, _)
freshData(cache, now, duration) ==
    IF cache = <<>> THEN <<>>
    ELSE (IF Head(cache).timestamp > now - duration THEN Head(cache).data ELSE <<>>)
         \o freshData(Tail(cache), now, duration)

\* getCachedArticles, lines 1566-1583, called at time now
getCachedArticlesAt(config, cache, now) ==
    IF ~config.cacheEnabled THEN <<>>
    ELSE LET cachedArticles == freshData(cache, now, config.cacheDuration)
         IN  SubSeq(cachedArticles, 1, Min(config.maxResults, Len(cachedArticles)))

KeepInit ==
    /\ program = "cacheArticles"
    /\ liConfig \in CacheConfigs
    /\ handlers = <<>>
    /\ page = <<>>
    /\ liData = NoData
    /\ liNow = 0
    /\ liLastRequestTime = 0
    /\ liTimer = 0
    /\ liStarts = <<>>
    /\ liPending = FALSE
    /\ liCache = <<>>
    /\ liPc = "idle"
    /\ liArticles = <<>>
    /\ liPosts = <<>>
    /\ geminiApiKey = FALSE
    /\ newsApiKey = FALSE
    /\ liKeywordsOk = TRUE
    /\ liTimeframe = "d"
    /\ liKwIndex = 0
    /\ liBatches = 0
    /\ liAll = <<>>
    /\ liResult = LiNoResult
    /\ liLog = <<>>
    /\ liDayFound = FALSE
    /\ liSearchErrors = 0
    /\ store = StoreFile("missing", <<>>)
    /\ storeAtStart = StoreFile("missing", <<>>)
    /\ pc = "idle"
    /\ seenArticles = <<>>
    /\ kwIndex = 0
    /\ searchErrors = 0
    /\ allArticles = <<>>
    /\ articles = <<>>
    /\ analysisResponse = NoResponse
    /\ analysis = NoValue
    /\ linkedinPost = NoPost
    /\ result = NoResult
    /\ writeOutcome = "none"
    /\ log = <<>>

KeepFrame ==
    UNCHANGED << program, goodVars, liData, liConfig, handlers, page, liLastRequestTime, liTimer, liStarts,
                 liPending, liKeywordsOk, liTimeframe, liKwIndex, liBatches, liAll, liPosts,
                 liResult, liLog, liDayFound, liSearchErrors >>

\* one call cacheArticles(articles, query)
CacheArticles ==
    /\ program = "cacheArticles"
    /\ \E arts \in CachedLists, query \in CacheQueries :
          liCache' = cacheArticlesAt(liConfig, liCache, arts, query, liNow)
    /\ liPc' = "cached"
    /\ UNCHANGED << liNow, liArticles >>
    /\ KeepFrame

\* one call getCachedArticles()
GetCachedArticles ==
    /\ program = "cacheArticles"
    /\ liArticles' = getCachedArticlesAt(liConfig, liCache, liNow)
    /\ liPc' = "got"
    /\ UNCHANGED << liNow, liCache >>
    /\ KeepFrame

\* Date.now() advances between two calls
CacheClockTicks ==
    /\ program = "cacheArticles"
    /\ liNow < MaxCacheClock
    /\ liNow' = liNow + 1
    /\ UNCHANGED << liPc, liCache, liArticles >>
    /\ KeepFrame

KeepNext ==
    \/ CacheArticles
    \/ GetCachedArticles
    \/ CacheClockTicks

KeepSpec == KeepInit /\ [][KeepNext]_vars

\* ======================================================================
\* The server (src/server.js): POST /api/generate and
\* POST /api/regenerate-post, several requests being handled at a time.
\* Each handler constructs its own agent; seen-articles.json is shared.
\* ======================================================================
MaxHandlers == 2        \* requests one behaviour sends to the server

MaxServedArticles == 1  \* articles the search of one request returns

\* what the server holds for one request: the route, how far the handler
\* is, req.body, the agent's seenArticles, the articles its run found, what
\* run() settled with, the backend requests made and the response sent
Handler(route, at, body, seen, arts, outcome, requests, response) ==
    [route |-> route, pc |-> at, body |-> body, seenArticles |-> seen, articles |-> arts,
     result |-> outcome, requests |-> requests, response |-> response]

NoBody == [hasArticles |-> FALSE, articles |-> <<>>, overallTrend |-> ""]

NoHandler == Handler("none", "idle", NoBody, <<>>, <<>>, NoResult, 0, NoResponseSent)

\* variant of generateResponse that answers every settled run with 200
generateResponse_always200(outcome) ==
    Response(200, outcome.success, outcome.error, outcome.linkedinPost)

\* POST /api/generate, lines 22-35: the response for what run() settled with
generateResponse(outcome) ==
    IF outcome.settled = "rejected" THEN Response(500, FALSE, "Server error", NoPost)
    ELSE IF outcome.success THEN Response(200, TRUE, "", outcome.linkedinPost)
    ELSE Response(500, FALSE, outcome.error, NoPost)

\* run() from the answer of the search to its return, part_005 lines 323-365
runAfterSearch(file, apiKey, seen, found, analysisAnswer, postAnswer, outcome) ==
    LET arts == filterSeen(found, seen)
        a == analyzeWithGemini(apiKey, arts, analysisAnswer)
        p == generateLinkedInPost(apiKey, a.val, arts, postAnswer)
        r == persistAndReturn(file, seen, a.val, arts, p.val, outcome)
    IN  IF arts = <<>>
        THEN [store |-> file, seenArticles |-> seen, articles |-> arts,
              result |-> noArticlesResult]
        ELSE IF ~a.ok
        THEN [store |-> file, seenArticles |-> seen, articles |-> arts,
              result |-> catchError(a.err)]
        ELSE IF ~p.ok
        THEN [store |-> file, seenArticles |-> seen, articles |-> arts,
              result |-> catchError(p.err)]
        ELSE [store |-> r.store, seenArticles |-> r.seenArticles, articles |-> arts,
              result |-> r.result]

\* the request bodies sent to /api/regenerate-post
ServedBodies ==
    { [hasArticles |-> FALSE, articles |-> <<>>, overallTrend |-> "Positive developments"] }
    \cup
    { [hasArticles |-> TRUE, articles |-> arts, overallTrend |-> "Positive developments"] :
          arts \in SeqsUpTo(SubmittedArticles, 1) }

ServeInit ==
    /\ program = "server"
    /\ handlers = [h \in 1..MaxHandlers |-> NoHandler]
    /\ page = <<>>
    /\ liData = NoData
    /\ liConfig = CONFIG
    /\ liNow = 0
    /\ liLastRequestTime = 0
    /\ liTimer = 0
    /\ liStarts = <<>>
    /\ liPending = FALSE
    /\ geminiApiKey \in BOOLEAN
    /\ newsApiKey = TRUE
    /\ store \in { StoreFile("missing", <<>>), StoreFile("valid", <<"u1">>) }
    /\ storeAtStart = store
    /\ liPc = "idle"
    /\ liKeywordsOk = TRUE
    /\ liTimeframe = "d"
    /\ liKwIndex = 0
    /\ liBatches = 0
    /\ liAll = <<>>
    /\ liCache = <<>>
    /\ liArticles = <<>>
    /\ liPosts = <<>>
    /\ liResult = LiNoResult
    /\ liLog = <<>>
    /\ liDayFound = FALSE
    /\ liSearchErrors = 0
    /\ pc = "idle"
    /\ seenArticles = <<>>
    /\ kwIndex = 0
    /\ searchErrors = 0
    /\ allArticles = <<>>
    /\ articles = <<>>
    /\ analysisResponse = NoResponse
    /\ analysis = NoValue
    /\ linkedinPost = NoPost
    /\ result = NoResult
    /\ writeOutcome = "none"
    /\ log = <<>>

ServeFrame ==
    UNCHANGED << program, liVars, page, liData, liConfig, liNow, liLastRequestTime, liTimer,
                 liStarts, liPending, geminiApiKey, newsApiKey, storeAtStart, pc, seenArticles,
                 kwIndex, searchErrors, allArticles, articles, analysisResponse, analysis,
                 linkedinPost, result, writeOutcome, log >>

\* POST /api/generate arrives: new AIGoodNewsAgent() loads the store, run()
\* starts the search and awaits it
GenerateArrives ==
    /\ program = "server"
    /\ \E h \in 1..MaxHandlers :
          /\ handlers[h].pc = "idle"
          /\ handlers' = [handlers EXCEPT ![h] =
                 Handler("generate", "searching", NoBody, loadSeenArticles(store), <<>>,
                         NoResult, 0, NoResponseSent)]
    /\ UNCHANGED store
    /\ ServeFrame

\* the search of a handler has answered: the rest of run() and the response
GenerateResponds ==
    /\ program = "server"
    /\ \E h \in 1..MaxHandlers, outcome \in WriteOutcomes,
          hits \in SeqsUpTo(NewsApiHits, MaxServedArticles) :
          /\ handlers[h].pc = "searching"
          /\ \E analysisAnswer \in (IF geminiApiKey THEN AnalysisResponses(Len(hits))
                                    ELSE {NoResponse}),
                postAnswer \in (IF geminiApiKey THEN PostResponses ELSE {NoResponse}) :
                LET r == runAfterSearch(store, geminiApiKey, handlers[h].seenArticles,
                                        fromNewsAPI(hits), analysisAnswer, postAnswer, outcome)
                IN  /\ store' = r.store
                    /\ handlers' = [handlers EXCEPT ![h] =
                           Handler("generate", "responded", NoBody, r.seenArticles, r.articles,
                                   r.result, 0, generateResponse(r.result))]
    /\ ServeFrame

\* POST /api/regenerate-post, from its arrival to the response
RegenerateResponds ==
    /\ program = "server"
    /\ \E h \in 1..MaxHandlers, body \in ServedBodies,
          postAnswer \in (IF geminiApiKey THEN PostResponses ELSE {NoResponse}) :
          /\ handlers[h].pc = "idle"
          /\ LET r == regeneratePost(store, geminiApiKey, body, postAnswer)
             IN  /\ store' = r.store
                 /\ handlers' = [handlers EXCEPT ![h] =
                        Handler("regenerate", "responded", body, r.seenArticles, r.articles,
                                NoResult, r.requests, r.response)]
    /\ ServeFrame

ServeNext ==
    \/ GenerateArrives
    \/ GenerateResponds
    \/ RegenerateResponds

ServeSpec == ServeInit /\ [][ServeNext]_vars

\* ======================================================================
\* The browser page: AIGoodNewsUI (src/script.js).  page holds the
\* elements the class reads and writes, this.currentData, and the fetches
\* that have not been answered yet.  Every handler runs to its await, the
\* answer of the fetch resumes it, and it then runs to its end.
\* program = "page".
\* ======================================================================
MaxBriefings == 3   \* generateBriefing calls of one page

\* a result object of executeAgent: id numbers the generateBriefing call
\* that received it, complete: it has the articles and the post
Briefing(id, success, complete, sample) ==
    [id |-> id, success |-> success, complete |-> complete, sample |-> sample]

\* this.currentData = null
NoBriefing == Briefing(0, FALSE, FALSE, FALSE)

\* the text of linkedinPost.value: the result whose articles it was written
\* from, and whether /api/regenerate-post wrote it
PostText(of, regenerated) == [of |-> of, regenerated |-> regenerated]

\* how POST /api/generate can end for the page
GenerateAnswers == { "ok", "failed", "malformed", "unreachable" }

\* how POST /api/regenerate-post can end for the page
RegenerateAnswers == { "ok", "failed", "unreachable" }

\* getSampleData (lines 73-124): success is true
getSampleData(id) == Briefing(id, TRUE, TRUE, TRUE)

\* executeAgent (lines 48-71): the parsed body of the answer; when fetch or
\* response.json() rejects, the sample data
executeAgent(id, answer) ==
    CASE answer = "ok"          -> Briefing(id, TRUE, TRUE, FALSE)
      [] answer = "failed"      -> Briefing(id, FALSE, FALSE, FALSE)
      [] answer = "malformed"   -> Briefing(id, TRUE, FALSE, FALSE)
      [] answer = "unreachable" -> getSampleData(id)

\* showLoading (lines 126-133)
showLoading(ui) ==
    [ui EXCEPT !.generateBtnDisabled = TRUE,
               !.loading = "block",
               !.resultsSection = "none",
               !.errorSection = "none"]

\* variant of hideLoading that leaves the button as it is
hideLoading_keepsButton(ui) ==
    [ui EXCEPT !.loading = "none"]

\* hideLoading (lines 135-139)
hideLoading(ui) ==
    [ui EXCEPT !.generateBtnDisabled = FALSE,
               !.loading = "none"]

\* showError (lines 280-284)
showError(ui) ==
    [ui EXCEPT !.errorSection = "block",
               !.resultsSection = "none"]

\* displayResults (lines 160-182): the two sections are set first; reading
\* data.articles.length of a result without articles throws before the
\* text box is written
displayResults(ui, data) ==
    LET sections == [ui EXCEPT !.resultsSection = "block", !.errorSection = "none"]
    IN  IF data.complete
        THEN Ok([sections EXCEPT !.linkedinPost = PostText(data.id, FALSE)])
        ELSE [ok |-> FALSE, val |-> sections, err |-> "TypeError"]

\* generateBriefing after its await (lines 34-45): try, catch and finally
briefingEnds(ui, data) ==
    LET kept      == [ui EXCEPT !.currentData = data]
        displayed == displayResults(kept, data)
        tried     == IF data.success
                     THEN (IF displayed.ok THEN displayed.val ELSE showError(displayed.val))
                     ELSE showError(ui)
    IN  hideLoading(tried)

\* the markup of the page is not part of src/: the sections start hidden,
\* retryBtn lies in errorSection and regenerateBtn in resultsSection, so
\* that each can be clicked only while its section is displayed
retryBtnShown == page.errorSection = "block"

regenerateBtnShown == page.resultsSection = "block"

PageInit ==
    /\ program = "page"
    /\ page = [generateBtnDisabled |-> FALSE,
               regenerateBtnDisabled |-> FALSE,
               loading |-> "none",
               resultsSection |-> "none",
               errorSection |-> "none",
               linkedinPost |-> PostText(0, FALSE),
               currentData |-> NoBriefing,
               briefings |-> 0,
               generating |-> <<>>,
               regenerating |-> <<>>]
    /\ handlers = <<>>
    /\ liData = NoData
    /\ liConfig = CONFIG
    /\ liNow = 0
    /\ liLastRequestTime = 0
    /\ liTimer = 0
    /\ liStarts = <<>>
    /\ liPending = FALSE
    /\ geminiApiKey = TRUE
    /\ newsApiKey = TRUE
    /\ store = StoreFile("missing", <<>>)
    /\ storeAtStart = store
    /\ liPc = "idle"
    /\ liKeywordsOk = TRUE
    /\ liTimeframe = "d"
    /\ liKwIndex = 0
    /\ liBatches = 0
    /\ liAll = <<>>
    /\ liCache = <<>>
    /\ liArticles = <<>>
    /\ liPosts = <<>>
    /\ liResult = LiNoResult
    /\ liLog = <<>>
    /\ liDayFound = FALSE
    /\ liSearchErrors = 0
    /\ pc = "idle"
    /\ seenArticles = <<>>
    /\ kwIndex = 0
    /\ searchErrors = 0
    /\ allArticles = <<>>
    /\ articles = <<>>
    /\ analysisResponse = NoResponse
    /\ analysis = NoValue
    /\ linkedinPost = NoPost
    /\ result = NoResult
    /\ writeOutcome = "none"
    /\ log = <<>>

PageFrame ==
    UNCHANGED << program, goodVars, liVars, handlers, liData, liConfig, liNow,
                 liLastRequestTime, liTimer, liStarts, liPending >>

\* generateBriefing up to its await (lines 28-33, 48-57): showLoading, then
\* the fetch of /api/generate
generateBriefing ==
    /\ page.briefings < MaxBriefings
    /\ page' = [showLoading(page) EXCEPT
                   !.briefings = page.briefings + 1,
                   !.generating = Append(page.generating, page.briefings + 1)]

\* a click on generateBtn, or Ctrl+Enter, which calls generateBtn.click()
\* (lines 21, 294-297): a disabled button dispatches no click event
ClickGenerate ==
    /\ program = "page"
    /\ ~page.generateBtnDisabled
    /\ generateBriefing
    /\ PageFrame

\* a click on retryBtn (line 24)
ClickRetry ==
    /\ program = "page"
    /\ retryBtnShown
    /\ generateBriefing
    /\ PageFrame

\* the fetch of some generateBriefing call is answered and the call runs
\* to its end (lines 34-45, 59-70)
GenerateAnswered ==
    /\ program = "page"
    /\ \E i \in 1..Len(page.generating), answer \in GenerateAnswers :
          LET id   == page.generating[i]
              rest == [page EXCEPT !.generating =
                          SubSeq(page.generating, 1, i - 1)
                              \o SubSeq(page.generating, i + 1, Len(page.generating))]
          IN  page' = briefingEnds(rest, executeAgent(id, answer))
    /\ PageFrame

\* a click on regenerateBtn: regeneratePost up to its await (lines 231-247),
\* the request carries the articles of this.currentData
ClickRegenerate ==
    /\ program = "page"
    /\ regenerateBtnShown
    /\ ~page.regenerateBtnDisabled
    /\ page.currentData # NoBriefing
    /\ page' = [page EXCEPT
                   !.regenerateBtnDisabled = TRUE,
                   !.regenerating = Append(page.regenerating, page.currentData.id)]
    /\ PageFrame

\* the fetch of regeneratePost is answered and the call runs to its end
\* (lines 249-263): the post of the answer is written into the text box
RegenerateAnswered ==
    /\ program = "page"
    /\ \E i \in 1..Len(page.regenerating), answer \in RegenerateAnswers :
          LET for  == page.regenerating[i]
              rest == [page EXCEPT !.regenerating =
                          SubSeq(page.regenerating, 1, i - 1)
                              \o SubSeq(page.regenerating, i + 1, Len(page.regenerating))]
              written == IF answer = "ok"
                         THEN [rest EXCEPT !.linkedinPost = PostText(for, TRUE)]
                         ELSE rest
          IN  page' = [written EXCEPT !.regenerateBtnDisabled = FALSE]
    /\ PageFrame

PageNext ==
    \/ ClickGenerate
    \/ ClickRetry
    \/ GenerateAnswered
    \/ ClickRegenerate
    \/ RegenerateAnswered

PageSpec == PageInit /\ [][PageNext]_vars

\* ======================================================================
\* The network calls run() awaits: makeHttpRequest (src/unnamed/part_005,
\* lines 368-399) in AIGoodNewsAgent and duckDuckGoSearch
\* (src/unnamed/part_004, lines 564-643) in LinkedInAINewsAgent.
\* program names the call; liPending: its promise is not settled yet.
\* ======================================================================
MaxAwaitArticles == 1

requestTimeout == 15000

\* the timeout given to the request and handled by a 'timeout' listener that
\* rejects the promise; 0: the request options carry none and no listener
\* is registered
timeoutOf(call) == IF call = "duckDuckGoSearch" THEN requestTimeout ELSE 0

\* the backend is asked only with an API key (lines 131-134 and 248-251)
AwaitsBackend == pc \in {"analyzing", "generating"} /\ geminiApiKey

AwaitInit ==
    /\ program \in {"makeHttpRequest", "duckDuckGoSearch"}
    /\ AuxInit
    /\ geminiApiKey \in (IF program = "makeHttpRequest" THEN BOOLEAN ELSE {FALSE})
    /\ newsApiKey \in (IF program = "makeHttpRequest" THEN BOOLEAN ELSE {FALSE})
    /\ liPc = IF program = "duckDuckGoSearch" THEN "searching" ELSE "idle"
    /\ liKeywordsOk = TRUE
    /\ liTimeframe = "d"
    /\ liKwIndex = 0
    /\ liBatches = IF program = "duckDuckGoSearch" THEN 1 ELSE 0
    /\ liAll = <<>>
    /\ liCache = <<>>
    /\ liArticles = <<>>
    /\ liPosts = <<>>
    /\ liResult = LiNoResult
    /\ liLog = <<>>
    /\ liDayFound = FALSE
    /\ liSearchErrors = 0
    /\ store = StoreFile("missing", <<>>)
    /\ storeAtStart = StoreFile("missing", <<>>)
    /\ pc = IF program = "makeHttpRequest" THEN "searching" ELSE "idle"
    /\ seenArticles = <<>>
    /\ kwIndex = 0
    /\ searchErrors = 0
    /\ allArticles = <<>>
    /\ articles = <<>>
    /\ analysisResponse = NoResponse
    /\ analysis = NoValue
    /\ linkedinPost = NoPost
    /\ result = NoResult
    /\ writeOutcome = "none"
    /\ log = <<>>

\* https.request / https.get: the request leaves and run() awaits the
\* promise; liTimer is the timeout armed for it
IssueRequest ==
    /\ ~liPending
    /\ \/ program = "makeHttpRequest" /\ (pc = "searching" \/ AwaitsBackend)
       \/ program = "duckDuckGoSearch" /\ liPc = "searching"
    /\ liPending' = TRUE
    /\ liTimer' = timeoutOf(program)
    /\ UNCHANGED << program, goodVars, liVars, liData, liConfig, handlers, page, liNow, liLastRequestTime, liStarts >>

\* the peer of makeHttpRequest answers (res 'end') or the transport fails
\* (req 'error'): the promise settles and the stage of run() goes on
HttpRequestSettles ==
    /\ program = "makeHttpRequest"
    /\ liPending
    /\ liPending' = FALSE
    /\ \/ /\ pc = "searching"
          /\ \/ SearchKeywordStep(<<>>, TRUE)
             \/ /\ newsApiKey
                /\ \E hits \in SeqsUpTo(NewsApiHits, MaxAwaitArticles - Len(allArticles)) :
                      SearchKeywordStep(fromNewsAPI(hits), FALSE)
             \/ /\ ~newsApiKey
                /\ \E topics \in SeqsUpTo(DuckDuckGoTopics, MaxAwaitArticles - Len(allArticles)) :
                      SearchKeywordStep(fromDuckDuckGo(topics), FALSE)
       \/ /\ pc = "analyzing"
          /\ \E response \in AnalysisResponses(Len(articles)) : AnalysisReturns(response)
       \/ /\ pc = "generating"
          /\ \E response \in PostResponses : PostReturns(response)
    /\ UNCHANGED << liData, liConfig, handlers, page, liNow, liLastRequestTime, liTimer, liStarts >>

\* the peer of duckDuckGoSearch answers (resolve with the parsed articles)
\* or the transport fails (reject, caught per keyword)
SearchRequestSettles ==
    /\ program = "duckDuckGoSearch"
    /\ liPending
    /\ liPending' = FALSE
    /\ \/ LiSearchKeywordStep(<<>>, TRUE)
       \/ \E data \in ProviderAnswers(MaxAwaitArticles - Len(liAll)) :
             LiSearchKeywordStep(parseSearchResults(data), FALSE)
    /\ UNCHANGED << liData, liConfig, handlers, page, liNow, liLastRequestTime, liTimer, liStarts >>

\* request.on("timeout"), lines 634-637: the request is destroyed and the
\* promise rejected; performSearch catches it for this keyword
RequestTimesOut ==
    /\ liPending
    /\ liTimer > 0
    /\ liPending' = FALSE
    /\ LiSearchKeywordStep(<<>>, TRUE)
    /\ UNCHANGED << liData, liConfig, handlers, page, liNow, liLastRequestTime, liTimer, liStarts >>

\* the stages of run() that await no network call
RunsOn ==
    \/ FilterSeen
    \/ ~geminiApiKey /\ AnalyzeWithGemini
    \/ ~geminiApiKey /\ GenerateLinkedInPost
    \/ PersistAndReturn
    \/ LiGeneratePosts
    \/ LiDisplayAndReturn

AwaitNext ==
    \/ IssueRequest
    \/ HttpRequestSettles
    \/ SearchRequestSettles
    \/ RequestTimesOut
    \/ RunsOn

\* the event loop runs every continuation that is ready and fires every
\* timer that is due; nothing obliges a peer to answer
AwaitSpec ==
    /\ AwaitInit
    /\ [][AwaitNext]_vars
    /\ WF_vars(IssueRequest)
    /\ WF_vars(RequestTimesOut)
    /\ WF_vars(RunsOn)

\* ======================================================================
\* Properties
\* ======================================================================
Good == program = "ai-agent"
Li   == program = "linkedin-agent"
Regen == program = "regenerate-post"
Rank == program = "filterAndRankArticles"
Score == program = "calculateRelevanceScore"
Rate == program = "performSearch"

InLog(e) == \E i \in 1..Len(log) : log[i] = e
Count(e) == Cardinality({i \in 1..Len(log) : log[i] = e})
AllBefore(a, b) == \A i, j \in 1..Len(log) : (log[i] = a /\ log[j] = b) => i < j

\* C1: whenever run() of AIGoodNewsAgent has returned success:false, the seen
\* store holds exactly the urls it held before the run.
C1_FailedRunKeepsStore ==
    (Good /\ pc = "done" /\ ~result.success) => StoreUrls(store) = StoreUrls(storeAtStart)

\* C2: when search, analysis and post generation succeeded and the write of
\* the seen store failed, run() still returns success:true with the articles
\* and the post.
C2_WriteFailureKeepsSuccess ==
    (Good /\ pc = "done" /\ writeOutcome \in {"fail_untouched", "fail_truncated"})
        => (result.success /\ result.linkedinPost = linkedinPost)

\* C3: after a run that returned success:true every url that searchAINews
\* returned is in the persisted store, and searchAINews never returns an
\* article whose url is in the store the agent loaded.
C3_SeenTracking ==
    Good =>
      /\ (pc = "done" /\ result.success)
            => \A i \in 1..Len(articles) : articles[i].url \in StoreUrls(store)
      /\ \A i \in 1..Len(articles) : articles[i].url \notin StoreUrls(storeAtStart)

C3_Witness ==
    /\ Good /\ pc = "done" /\ result.success
    /\ StoreUrls(storeAtStart) # {}
    /\ \E i \in 1..Len(allArticles) : allArticles[i].url \in StoreUrls(storeAtStart)

\* C4: no step of any sequence of runs removes a url from the persisted
\* seen store.
C4_StoreNeverShrinks == [][StoreUrls(store) \subseteq StoreUrls(store')]_vars

\* C5: within one run the stages happen in the order search, analysis, post
\* generation, store write: every search request precedes the analysis, the
\* analysis returns before the post generation, the store is written only
\* after both returned, and nothing (no network request) follows the write.
C5_StageOrder ==
    Good =>
      /\ AllBefore("search_request", "backend_request")
      /\ AllBefore("search_request", "analysis_returned")
      /\ AllBefore("analysis_returned", "post_returned")
      /\ InLog("analysis_returned") => Count("search_request") = NumKeywords
      /\ \A i \in 1..Len(log) :
            log[i] = "store_write" =>
               /\ i = Len(log)
               /\ \E j, k \in 1..(i - 1) :
                     j < k /\ log[j] = "analysis_returned" /\ log[k] = "post_returned"
               /\ \A j \in 1..(i - 1) :
                     log[j] = "backend_request" =>
                        \E k \in (j + 1)..(i - 1) :
                           log[k] \in {"analysis_returned", "post_returned"}

C5_Witness ==
    /\ Good /\ pc = "done" /\ result.success
    /\ Count("backend_request") = 2
    /\ InLog("store_write")

\* C6: when the search stage ends with zero articles, run() returns
\* success:false with an error, no analysis and no post generation took
\* place and the seen store was not written; for LinkedInAINewsAgent the
\* result is the empty result with no articles and no posts.
C6_EmptySearch ==
    /\ (Good /\ pc = "done" /\ articles = <<>>) =>
          /\ result.settled = "resolved" /\ ~result.success /\ result.error # ""
          /\ ~InLog("backend_request") /\ ~InLog("analysis_returned")
          /\ ~InLog("post_returned") /\ ~InLog("store_write")
          /\ analysis = NoValue /\ linkedinPost = NoPost
          /\ store = storeAtStart
    /\ (Li /\ liPc = "done" /\ liBatches >= 1 /\ liArticles = <<>>) =>
          /\ ~liResult.success /\ liResult.error # ""
          /\ liResult.articles = <<>> /\ liResult.posts = <<>>
          /\ liPosts = <<>>

C6_Witness ==
    /\ Good /\ pc = "done" /\ articles = <<>>
    /\ allArticles # <<>>
    /\ StoreUrls(storeAtStart) # {}

\* C7: the promise of run() never rejects, in either agent: it resolves with
\* a structured object, and a result that is not a success has success:false
\* and a non-empty error or message.
C7_RunNeverThrows ==
    /\ (Good /\ pc = "done") =>
          /\ result.settled = "resolved"
          /\ ~result.success => result.error # ""
    /\ (Li /\ liPc = "done") =>
          /\ liResult.kind \in {"success", "partial", "empty", "error"}
          /\ ~liResult.success => (liResult.error # "" \/ liResult.message # "")

C7_Witness ==
    /\ Good /\ pc = "done" /\ ~result.success
    /\ InLog("post_returned")

\* C8: with a backend key, when the backend call of the analysis fails (HTTP
\* error, transport error, unparsable body, missing candidates, or generated
\* text that is not JSON), analyzeWithGemini returns fallbackAnalysis(articles)
\* and the run goes on to post generation.
BackendCallFailed(response) ==
    \/ response.status \in {"http_error", "transport_error"}
    \/ response.status = "ok" /\ ~response.bodyIsJson
    \/ response.status = "ok" /\ response.bodyIsJson /\ ~response.candidates
    \/ response.status = "ok" /\ response.bodyIsJson /\ response.candidates
          /\ ~response.text.isJson

C8_BackendFailureFallsBack ==
    (Good /\ geminiApiKey /\ BackendCallFailed(analysisResponse)) =>
        /\ analysis = fallbackAnalysis(articles)
        /\ pc = "generating" \/ InLog("post_returned")

C8_Witness ==
    /\ Good /\ geminiApiKey /\ pc = "generating"
    /\ analysisResponse.status = "ok" /\ analysisResponse.candidates
    /\ ~analysisResponse.text.isJson
    /\ Len(articles) >= 2

\* C9: without a backend key no backend request is issued, and the analysis
\* has exactly min(3, number of articles) entries, ranked 1..N, which are the
\* articles with the highest positive-keyword scores, equal scores in input
\* order.
Precedes(arts, i, j) ==
    \/ scoreOf(arts[i + 1]) > scoreOf(arts[j + 1])
    \/ scoreOf(arts[i + 1]) = scoreOf(arts[j + 1]) /\ i < j

C9_LocalAnalysis ==
    (Good /\ ~geminiApiKey /\ analysis # NoValue) =>
        LET top == analysis.topArticles
            chosen == {top[r].originalIndex : r \in 1..Len(top)}
        IN  /\ ~InLog("backend_request")
            /\ Len(top) = Min(3, Len(articles))
            /\ \A r \in 1..Len(top) :
                  top[r].rank = r /\ ValidIndex(articles, top[r].originalIndex)
            /\ \A r, q \in 1..Len(top) :
                  r < q => Precedes(articles, top[r].originalIndex, top[q].originalIndex)
            /\ \A j \in 0..(Len(articles) - 1) :
                  j \notin chosen => \A i \in chosen : Precedes(articles, i, j)

C9_Witness ==
    /\ Good /\ ~geminiApiKey /\ pc = "done" /\ result.success
    /\ Len(articles) = 4
    /\ analysis.topArticles[1].originalIndex = 3
    /\ scoreOf(articles[1]) = scoreOf(articles[2])
    /\ analysis.topArticles[2].originalIndex = 0

\* C10: in every analysis returned by analyzeWithGemini each entry's
\* originalIndex is a valid index into the articles passed in; the entries of
\* the local strategy have pairwise different indices and the title of the
\* article they point to.
LocalStrategy == ~geminiApiKey \/ BackendCallFailed(analysisResponse)

C10_OriginalIndexValid ==
    (Good /\ InLog("analysis_returned")) =>
        LET top == analysis.topArticles
        IN  /\ \A r \in 1..Len(top) : ValidIndex(articles, top[r].originalIndex)
            /\ LocalStrategy =>
                  /\ \A r, q \in 1..Len(top) :
                        r # q => top[r].originalIndex # top[q].originalIndex
                  /\ \A r \in 1..Len(top) :
                        ValidIndex(articles, top[r].originalIndex)
                           /\ top[r].title = articles[top[r].originalIndex + 1].title

\* C11: when the analysis the backend returned holds an entry whose
\* originalIndex is missing or out of range, generateLinkedInPost and run()
\* reject or clamp it: the run never ends in the exception of dereferencing a
\* missing article.
InvalidIndexIn(top, arts) ==
    \E r \in 1..Len(top) : ~ValidIndex(arts, top[r].originalIndex)

C11_InvalidIndexHandled ==
    (Good /\ pc = "done" /\ InLog("analysis_returned")
          /\ InvalidIndexIn(analysis.topArticles, articles))
        => result.error # "TypeError"

\* C12: the list returned by filterAndRankArticles (and so by searchAINews of
\* LinkedInAINewsAgent) never holds two articles with the same url, and every
\* article in it is the first article of the input with that url.
FirstWithUrl(arts, a) ==
    \E j \in 1..Len(arts) :
        arts[j] = a /\ \A k \in 1..(j - 1) : arts[k].url # a.url

C12_NoDuplicateUrls ==
    Li =>
      /\ \A i, j \in 1..Len(liArticles) : i # j => liArticles[i].url # liArticles[j].url
      /\ \A i \in 1..Len(liArticles) : FirstWithUrl(liAll, liArticles[i])

C12_Witness ==
    /\ Li /\ Len(liArticles) >= 2
    /\ \E i, j \in 1..Len(liAll) :
          /\ i < j /\ liAll[i].url = liAll[j].url /\ liAll[i] # liAll[j]
          /\ \E k \in 1..Len(liArticles) : liArticles[k] = liAll[i]

\* C13: the article list searchAINews of AIGoodNewsAgent returns for a run,
\* merged over all keywords, holds no two articles with the same url.
C13_RunArticlesUnique ==
    Good => \A i, j \in 1..Len(articles) : i # j => articles[i].url # articles[j].url

\* C14: every article in the output of filterAndRankArticles has a
\* relevanceScore in [0,1] that is not below minRelevanceScore, a summary of
\* at least 100 characters and a source that holds no entry of the excluded
\* list; articles of the abstract path (score 0.9) included.
C14_OutputQuality ==
    Li => \A i \in 1..Len(liArticles) :
             /\ liArticles[i].relevanceScore \in 0..100
             /\ liArticles[i].relevanceScore >= minRelevanceScore
             /\ liArticles[i].summaryLength >= 100
             /\ liArticles[i].domains \cap excluded = {}

C14_Witness ==
    /\ Li
    /\ \E i \in 1..Len(liArticles) :
          liArticles[i].relevanceScore = 90 /\ ~liArticles[i].titleIsString
    /\ \E i \in 1..Len(liArticles) : liArticles[i].relevanceScore = 100
    /\ \E i \in 1..Len(liAll) :
          liAll[i].domains \cap excluded # {} \/ liAll[i].relevanceScore < minRelevanceScore

\* C15: for every article and every style the post returned by
\* createLinkedInPost has characterCount equal to content.length and not
\* greater than maxCharacters.
C15_PostWithinLimit ==
    \A i \in 1..Len(liPosts) :
        /\ liPosts[i].characterCount = liPosts[i].content
        /\ liPosts[i].characterCount <= maxCharacters

\* C16: generateHashtags returns at most maxHashtags tags, none of them twice,
\* and both generic tags are always among them.
C16_Hashtags ==
    \A i \in 1..Len(liPosts) :
        LET hashtags == liPosts[i].hashtags
        IN  /\ Len(hashtags) <= maxHashtags
            /\ \A j, k \in 1..Len(hashtags) : j # k => hashtags[j] # hashtags[k]
            /\ \E j \in 1..Len(hashtags) : hashtags[j] = "#ArtificialIntelligence"
            /\ \E j \in 1..Len(hashtags) : hashtags[j] = "#AI"

C16_Witness ==
    /\ program = "createLinkedInPost"
    /\ Cardinality(liArticles[1].terms) = 4
    /\ Len(liPosts) = 1
    /\ Len(liPosts[1].hashtags) = maxHashtags

\* C17: the post text returned by generateLinkedInPost of AIGoodNewsAgent,
\* through formatLinkedInPost or through generateFallbackPost, obeys the
\* budget rule of the template posts (at most 3000 characters, the body cut
\* before hashtags and source line are appended) and always ends with the
\* source line of the originating article.  Stated here: every post that
\* generateLinkedInPost returned carries the source line.
C17_PostEndsWithSource ==
    (Good /\ InLog("post_returned") /\ linkedinPost # NoPost)
        => linkedinPost.sourceLine # ""

\* C18: in searchAINews of LinkedInAINewsAgent a past-day batch that yields
\* zero articles is followed by the whole keyword batch with the past-week
\* timeframe; the widening happens at most once: at most two batches and at
\* most 2 x |aiKeywords| search requests per call.
LiCount(e) == Cardinality({i \in 1..Len(liLog) : liLog[i] = e})

DayBatchDone == LiCount("search_d") = NumKeywords

C18_WidenOnce ==
    Li =>
      /\ liBatches <= 2
      /\ LiCount("search_d") <= NumKeywords
      /\ LiCount("search_w") <= NumKeywords
      /\ LiCount("search_d") + LiCount("search_w") <= 2 * NumKeywords
      /\ \A i \in 1..Len(liLog) :
            liLog[i] = "search_w" =>
               /\ Cardinality({j \in 1..(i - 1) : liLog[j] = "search_d"}) = NumKeywords
               /\ ~liDayFound
      /\ (DayBatchDone /\ ~liDayFound) =>
            /\ liTimeframe = "w" /\ liBatches = 2
            /\ liPc # "searching" => LiCount("search_w") = NumKeywords

C18_Witness ==
    /\ Li /\ liPc = "generating"
    /\ DayBatchDone /\ ~liDayFound
    /\ LiCount("search_w") = NumKeywords

\* C19: searchAINews returns an empty (normalized, filtered) list to run(),
\* which then reports 'No articles found', only after the past-week batch
\* has been searched as well.
C19_EmptyOnlyAfterWeek ==
    (Li /\ liPc = "done" /\ liResult.kind = "empty")
        => LiCount("search_w") = NumKeywords

\* C20: the failure of the search request of one keyword never aborts the
\* batch: the failed keyword counts as zero results, the articles of the
\* other keywords are kept, the request of every later keyword is still
\* issued, in performSearch and in searchWithNewsAPI / searchWithDuckDuckGo.
IsPrefix(s, t) == Len(s) <= Len(t) /\ SubSeq(t, 1, Len(s)) = s

C20_KeywordFailureIsolated ==
    [][ /\ (Good /\ searchErrors' > searchErrors) =>
              /\ allArticles' = allArticles
              /\ kwIndex' = kwIndex + 1
              /\ pc' = IF kwIndex' < NumKeywords THEN "searching" ELSE "searched"
        /\ (Good /\ Count("search_request")' > Count("search_request")) =>
              IsPrefix(allArticles, allArticles')
        /\ (Good /\ pc = "searching" /\ pc' # "searching") =>
              Count("search_request")' = NumKeywords
        /\ (Li /\ liSearchErrors' > liSearchErrors) =>
              /\ liAll' = liAll
              /\ liKwIndex' = (liKwIndex + 1) % NumKeywords \/ liPc' # "searching"
        /\ (Li /\ Len(liLog') > Len(liLog)) =>
              IsPrefix(liAll, liAll')
        /\ (Li /\ liPc = "searching" /\ liPc' # "searching") =>
              /\ LiCount("search_d")' = NumKeywords
              /\ LiCount("search_w")' \in {0, NumKeywords}
      ]_vars

C20_Witness ==
    /\ Good /\ pc = "searched"
    /\ searchErrors = 1
    /\ Count("search_request") = NumKeywords
    /\ allArticles # <<>>

\* C21: handling POST /api/regenerate-post leaves the seen store as it was and
\* issues no news-search request, whether the regeneration succeeds or fails
\* and however often it is repeated.
C21_RegenerateLeavesStore ==
    [][Regen => (store' = store /\ Count("search_request")' = 0)]_vars

C21_Witness ==
    /\ Regen
    /\ Count("regenerate_request") = MaxRegenerations
    /\ InLog("backend_request")
    /\ result.status = 500
    /\ articles # <<>>
    /\ store = StoreFile("valid", <<"u1">>)

\* C22: a request with a non-empty articles list is answered 200 with
\* success:true and a linkedinPost.
C22_RegenerateSucceeds ==
    (Regen /\ pc = "done" /\ articles # <<>>)
        => (result.status = 200 /\ result.success /\ result.linkedinPost # NoPost)

\* C23: when run() of LinkedInAINewsAgent found articles and post generation
\* made no post or threw, the result is the partial result: success false,
\* partial true, the found articles, no posts and an error message.
C23_PartialResult ==
    (Li /\ liPc = "done" /\ liArticles # <<>> /\ liPosts = <<>>)
        => /\ liResult.kind = "partial"
           /\ ~liResult.success
           /\ liResult.partial
           /\ liResult.articles = liArticles
           /\ liResult.posts = <<>>
           /\ liResult.error # ""

C23_Witness ==
    /\ Li
    /\ liPc = "done"
    /\ liArticles # <<>>
    /\ liPosts = <<>>
    /\ liResult.error = "Post generation error"

\* C24: run() of LinkedInAINewsAgent returns success exactly when it found an
\* article and generated a post; a post that failed for some of the articles
\* and a display failure leave it a success, whose summary counts are the
\* lengths of its article and post lists.
C24_SuccessExactly ==
    (Li /\ liPc = "done")
        => /\ liResult.success <=> (liArticles # <<>> /\ liPosts # <<>>)
           /\ liResult.success =>
                 /\ liResult.kind = "success"
                 /\ liResult.articles = liArticles
                 /\ liResult.posts = liPosts
                 /\ liResult.articlesFound = Len(liArticles)
                 /\ liResult.postsGenerated = Len(liPosts)

C24_Witness ==
    /\ Li
    /\ liPc = "done"
    /\ liResult.success
    /\ Len(liArticles) = 2
    /\ Len(liPosts) = 1
    /\ liResult.postsGenerated = 1

\* C27: generateLinkedInPosts makes at most min(3, number of articles) posts,
\* at most one per article among the first three in rank order, and the post
\* of the article at position i has style styles[i mod number of styles], also
\* behind a position whose post failed.
PostedFrom(k) ==
    CHOOSE i \in 0..(Min(3, Len(liArticles)) - 1) : liArticles[i + 1].url = liPosts[k].sourceUrl

C27_PostsRotateStyles ==
    (Rank /\ liPc = "done")
        => /\ Len(liPosts) <= Min(3, Len(liArticles))
           /\ \A k \in 1..Len(liPosts) :
                 /\ \E i \in 0..(Min(3, Len(liArticles)) - 1) :
                       liArticles[i + 1].url = liPosts[k].sourceUrl
                 /\ liPosts[k].style = styles[(PostedFrom(k) % Len(styles)) + 1]
           /\ \A k, l \in 1..Len(liPosts) : k < l => PostedFrom(k) < PostedFrom(l)
           /\ \A i \in 0..(Min(3, Len(liArticles)) - 1) :
                 (i # 1 \/ liArticles[i + 1].titleIsString)
                     => \E k \in 1..Len(liPosts) : PostedFrom(k) = i

C27_Witness ==
    /\ Rank
    /\ liPc = "done"
    /\ Len(liArticles) > 3
    /\ ~liArticles[2].titleIsString
    /\ Len(liPosts) = 2
    /\ liPosts[2].style = "insight"

\* C28: in the output of filterAndRankArticles every article of a preferred
\* source precedes every other article, within each of the two groups the
\* relevanceScore does not increase, and the output is the first maxResults
\* articles of that order.
C28_Ranking ==
    (Rank /\ liPc # "searched")
        => LET candidates == Range(qualityArticles(uniqueArticles(liAll)))
           IN  /\ \A i, j \in 1..Len(liArticles) :
                     i < j => /\ matchesSource(liArticles[j], preferred)
                                   => matchesSource(liArticles[i], preferred)
                              /\ (matchesSource(liArticles[i], preferred)
                                   <=> matchesSource(liArticles[j], preferred))
                                   => liArticles[i].relevanceScore >= liArticles[j].relevanceScore
               /\ Len(liArticles) = Min(maxResults, Cardinality(candidates))
               /\ Range(liArticles) \subseteq candidates
               /\ \A i \in 1..Len(liArticles), c \in candidates \ Range(liArticles) :
                     /\ matchesSource(c, preferred) => matchesSource(liArticles[i], preferred)
                     /\ (matchesSource(liArticles[i], preferred) <=> matchesSource(c, preferred))
                           => liArticles[i].relevanceScore >= c.relevanceScore

C28_Witness ==
    /\ Rank
    /\ liPc # "searched"
    /\ Len(liArticles) = maxResults
    /\ Len(qualityArticles(uniqueArticles(liAll))) > maxResults
    /\ \E i, j \in 1..Len(liArticles) :
          /\ i < j
          /\ matchesSource(liArticles[i], preferred)
          /\ ~matchesSource(liArticles[j], preferred)
          /\ liArticles[i].relevanceScore < liArticles[j].relevanceScore

\* C29: a run of AIGoodNewsAgent adds a url to the seen store only if it
\* produced a post from the article with that url.
PostSourceUrl == articles[analysis.topArticles[1].originalIndex + 1].url

C29_SeenOnlyIfPosted ==
    (Good /\ pc = "done" /\ StoreUrls(store) \ StoreUrls(storeAtStart) # {})
        => /\ linkedinPost # NoPost
           /\ StoreUrls(store) \ StoreUrls(storeAtStart) \subseteq {PostSourceUrl}

\* C25: when every request of the live search failed and the cache of the
\* agent holds articles of an earlier search that pass the filter, run() works
\* with the cached articles and does not report an empty result.
C25_CacheFallback ==
    (/\ Li
     /\ liPc = "done"
     /\ liSearchErrors = 2 * NumKeywords
     /\ filterAndRankArticles(getCachedArticles(liCache)) # <<>>)
        => /\ liResult.kind # "empty"
           /\ liArticles = filterAndRankArticles(getCachedArticles(liCache))

\* C30: the relevance score of a text is min(1, 0.15 per match of each query
\* word of more than 2 characters + 0.3 per high-value phrase + 0.2 per
\* medium-value term + 0.1 per news-action term present); of two hits for
\* "artificial intelligence", one of 40 characters and one of 150 characters
\* holding "breakthrough" and "machine learning", parsing and filtering keep
\* exactly the second, with a score above 0.3.
CountingMatches ==
    LET counted == {w \in 1..Len(liData.query) : liData.query[w].length > 2}
    IN  IF counted = {} THEN 0
        ELSE IF Cardinality(counted) = 1 THEN liData.query[CHOOSE w \in counted : TRUE].matches
        ELSE liData.query[1].matches + liData.query[2].matches

ExpectedScore(hit) ==
    Min(100, 15 * CountingMatches
             + 30 * Cardinality({t \in highValueTerms : t \in hit.Text.terms})
             + 20 * Cardinality({t \in mediumValueTerms : t \in hit.Text.terms})
             + 10 * Cardinality({t \in newsTerms : t \in hit.Text.terms}))

C30_RelevanceScore ==
    (Score /\ liPc = "done")
        => /\ \A i \in 1..Len(liAll) :
                 \E h \in 1..Len(liData.hits) :
                    /\ liData.hits[h].FirstURL = liAll[i].url
                    /\ liAll[i].relevanceScore = ExpectedScore(liData.hits[h])
           /\ Len(liData.hits) = 2 =>
                 /\ Len(liArticles) = 1
                 /\ liArticles[1].url = liData.hits[2].FirstURL
                 /\ liArticles[1].relevanceScore > 30

C30_Witness ==
    /\ Score
    /\ liPc = "done"
    /\ Len(liData.hits) = 2
    /\ liData.query[1].length = 2
    /\ liData.query[1].matches = 2
    /\ liData.query[2].matches = 1
    /\ Len(liArticles) = 1
    /\ liArticles[1].relevanceScore = 55

\* C26: the search requests of one searchAINews are started one at a time,
\* never while the previous one is pending, and any two consecutive ones at
\* least rateLimitDelay apart, within a batch and from the day batch to the
\* week batch.
C26_RequestSpacing ==
    [][(Rate /\ Len(liStarts') > Len(liStarts))
          => /\ ~liPending
             /\ liStarts # <<>> => liStarts'[Len(liStarts')] - liStarts[Len(liStarts)] >= rateLimitDelay]_vars

C26_Witness ==
    /\ Rate
    /\ Len(liStarts) = 2 * NumKeywords
    /\ liTimeframe = "w"
    /\ \E i \in 1..(Len(liStarts) - 1) : liStarts[i + 1] - liStarts[i] = rateLimitDelay
    /\ \E i \in 1..(Len(liStarts) - 1) : liStarts[i + 1] - liStarts[i] > rateLimitDelay

\* C31: every call of run() eventually returns a result, in both agents, even
\* when a peer accepts a request and never answers (every network call is
\* bounded by a timeout).
RunReturned ==
    IF program = "makeHttpRequest" THEN result.settled # "pending"
    ELSE liResult # LiNoResult

C31_RunReturns == <>RunReturned


\* C32: when createLinkedInPost throws for one of the first three articles,
\* generateLinkedInPosts still makes the post of every other one of them and
\* returns exactly the posts that succeeded, in article order.
Attempted == 0..(Min(3, Len(liArticles)) - 1)

PostSucceeds(i) ==
    createLinkedInPost(liArticles[i + 1], styles[(i % Len(styles)) + 1], 0).ok

C32_FailureSkipsOneArticle ==
    (Rank /\ liPc = "done")
        => /\ Len(liPosts) = Cardinality({ i \in Attempted : PostSucceeds(i) })
           /\ \A i \in Attempted :
                 PostSucceeds(i) <=> \E k \in 1..Len(liPosts) :
                                        liPosts[k].sourceUrl = liArticles[i + 1].url
           /\ \A k \in 1..(Len(liPosts) - 1) : PostedFrom(k) < PostedFrom(k + 1)

C32_Witness ==
    /\ Rank
    /\ liPc = "done"
    /\ Len(liArticles) = 3
    /\ ~PostSucceeds(1)
    /\ Len(liPosts) = 2
    /\ liPosts[2].sourceUrl = liArticles[3].url

\* C33: in every post returned by createLinkedInPost the content ends with
\* the complete hashtag line followed by the complete line
\* "Source: <article.url>", sourceUrl is article.url, and a body that was
\* longer than the budget ends with "..." right before the hashtag block.
PostBudget(article) ==
    maxCharacters - joinLength(generateHashtags(article), 1) - (10 + article.urlLength) - 10

C33_TruncationTouchesBodyOnly ==
    (program = "createLinkedInPost" /\ Len(liPosts) = 1)
        => LET post == liPosts[1]
               article == liArticles[1]
               last == Len(post.layout)
           IN  /\ post.sourceUrl = article.url
               /\ post.layout[last].part = "source"
               /\ post.layout[last].url = article.url
               /\ post.layout[last].length = 10 + article.urlLength
               /\ post.layout[last - 1].part = "hashtags"
               /\ post.layout[last - 1].length = joinLength(generateHashtags(article), 1)
               /\ post.layout[last - 2].part = "separator"
               /\ post.layout[last - 3].part = "body"
               /\ post.layout[last - 3].from > PostBudget(article)
                     => post.layout[last - 3].ellipsis
               /\ post.content = post.layout[1].length + post.layout[2].length
                                   + post.layout[3].length + post.layout[4].length

C33_Witness ==
    /\ program = "createLinkedInPost"
    /\ Len(liPosts) = 1
    /\ liPosts[1].layout[1].ellipsis
    /\ liPosts[1].layout[1].from > liPosts[1].layout[1].length
    /\ liPosts[1].layout[1].length > 3
    /\ Len(liPosts[1].hashtags) > 2

\* C34: when POST /api/regenerate-post is called with the articles of an
\* earlier successful result, the article generateLinkedInPost looks up
\* through topArticles[0].originalIndex in the list built by the server is the
\* rank-1 article of that result, for every originalIndex the analysis assigned.
FromEarlierResult == analysis.overallTrend \in {overallTrendFallback, "generated"}

C34_RegenerateSameArticle ==
    (Regen /\ pc = "done" /\ articles # <<>> /\ FromEarlierResult)
        => /\ ValidIndex(articles, analysis.topArticles[1].originalIndex)
           /\ articles[analysis.topArticles[1].originalIndex + 1].url = analysis.topArticles[1].url
           /\ result.status = 200
           /\ result.linkedinPost.sourceLine \in {"", analysis.topArticles[1].url}

\* C35: after any sequence of cacheArticles calls the cache holds at most
\* config.cache.maxEntries entries, the oldest inserted entry being evicted
\* when the bound is exceeded; getCachedArticles returns only articles of
\* entries younger than config.cache.duration, at most
\* config.search.maxResults of them, and nothing when caching is disabled.
Keep == program = "cacheArticles"

NewKeyStep ==
    /\ liCache' # liCache
    /\ \A i \in 1..Len(liCache) : liCache[i].key # liCache'[Len(liCache')].key

GetStep == liPc' = "got" /\ liNow' = liNow /\ liCache' = liCache

C35_CacheBounded ==
    [][Keep =>
        /\ Len(liCache') <= liConfig.maxEntries
        /\ (NewKeyStep /\ Len(liCache) = liConfig.maxEntries)
              => liCache' = Append(Tail(liCache), liCache'[Len(liCache')])
        /\ GetStep =>
              /\ Len(liArticles') <= liConfig.maxResults
              /\ ~liConfig.cacheEnabled => liArticles' = <<>>
              /\ \A i \in 1..Len(liArticles') :
                    \E e \in 1..Len(liCache) :
                       /\ liArticles'[i] \in Range(liCache[e].data)
                       /\ liNow - liCache[e].timestamp < liConfig.cacheDuration]_vars

C35_Witness ==
    /\ Keep
    /\ liPc = "got"
    /\ Len(liCache) = MaxCacheEntries
    /\ liConfig.maxEntries = MaxCacheEntries
    /\ liCache[1].timestamp > 0
    /\ liNow - liCache[1].timestamp >= liConfig.cacheDuration
    /\ liArticles = liCache[2].data
    /\ Len(liArticles) < liConfig.maxResults

\* C36: when two POST /api/generate requests overlap and both runs succeed,
\* the persisted seen store afterwards contains the urls discovered by both
\* runs.
Serve == program = "server"

Answered(h, status) ==
    /\ handlers[h].route = "generate"
    /\ handlers[h].pc = "responded"
    /\ handlers[h].response.status = status

C36_NoLostUpdate ==
    (Serve /\ \A h \in 1..MaxHandlers : Answered(h, 200))
        => \A h \in 1..MaxHandlers :
              \A i \in 1..Len(handlers[h].articles) :
                  handlers[h].articles[i].url \in StoreUrls(store)

\* C37: POST /api/generate answers 200 exactly when the result of run() has
\* success true and otherwise 500 with success false; POST
\* /api/regenerate-post answers 400 with success false, without an agent, a
\* backend request or a post, when articles is missing or empty.
C37_StatusCodes ==
    Serve =>
        \A h \in 1..MaxHandlers :
            /\ (handlers[h].route = "generate" /\ handlers[h].pc = "responded")
                  => /\ handlers[h].response.status \in {200, 500}
                     /\ handlers[h].response.status = 200 <=> handlers[h].result.success
                     /\ handlers[h].response.status = 500 => ~handlers[h].response.success
            /\ (handlers[h].route = "regenerate"
                /\ (~handlers[h].body.hasArticles \/ handlers[h].body.articles = <<>>))
                  => /\ handlers[h].response.status = 400
                     /\ ~handlers[h].response.success
                     /\ handlers[h].response.linkedinPost = NoPost
                     /\ handlers[h].seenArticles = <<>>
                     /\ handlers[h].requests = 0

C37_Witness ==
    /\ Serve
    /\ store = StoreFile("valid", <<"u1">>)
    /\ \E h \in 1..MaxHandlers : Answered(h, 500)
    /\ \E h \in 1..MaxHandlers :
          /\ handlers[h].route = "regenerate"
          /\ handlers[h].body.hasArticles
          /\ handlers[h].response.status = 400

Page == program = "page"

\* C38: in the page, whenever the results are displayed the post in the
\* LinkedIn text box was written from the articles of currentData; the
\* answer to a regeneration request sent for an earlier result never
\* replaces the post of a newer result.
C38_PostBelongsToCurrentData ==
    (Page /\ page.resultsSection = "block")
        => page.linkedinPost.of = page.currentData.id

NoDuplicates(list) == \A i, j \in 1..Len(list) : list[i] = list[j] => i = j

\* C40: after any number of runs of AIGoodNewsAgent.run() neither the seen
\* list in memory nor the list written to the store holds a url twice, also
\* when the articles of one run hold the same url more than once, and an
\* agent constructed when no store file exists starts with an empty list.
C40_SeenListHasNoDuplicates ==
    program = "ai-agent" =>
        /\ NoDuplicates(seenArticles)
        /\ store.state = "valid" => NoDuplicates(store.urls)
        /\ (storeAtStart.state = "missing" /\ pc # "done") => seenArticles = <<>>

\* a later run, started from a written store, whose articles held one url
\* twice has marked them and written the store
C40_Witness ==
    /\ program = "ai-agent"
    /\ pc = "done"
    /\ storeAtStart.state = "valid"
    /\ storeAtStart.urls # <<>>
    /\ ~NoDuplicates([i \in 1..Len(articles) |-> articles[i].url])
    /\ Len(seenArticles) > Len(storeAtStart.urls)
    /\ store = StoreFile("valid", seenArticles)

====
